---------------------------- MODULE Spec2Model ----------------------------
(***************************************************************************)
(* Model of the record store of petra-dot/health-tracker                   *)
(* (src/src/db/database.js): daily entries, medicines and dose history     *)
(* kept as JSON documents in a key-value store.                            *)
(*                                                                         *)
(* JavaScript values are tagged records, so that typeof, truthiness and    *)
(* JSON.stringify / JSON.parse are computed as the engine computes them:   *)
(*   Num(n)      a number              Str(s)   a string                   *)
(*   undefined   the undefined value   null     the null value             *)
(*   Obj(props)  an object: its own properties, a sequence of <<key,       *)
(*               value>> pairs in property order (insertion order: the     *)
(*               keys used here are dates and millisecond timestamps,      *)
(*               none of which is an array index)                          *)
(*   Arr(items)  an array                                                  *)
(*   Iso(t)      the string new Date(t).toISOString()                      *)
(*   Json(doc)   the string JSON.stringify produced for doc                *)
(***************************************************************************)
EXTENDS Integers, Sequences, FiniteSets, TLC

VARIABLES
    storage,    \* the key-value medium: STORAGE_KEYS -> null or a JSON string
    last,       \* the call that ran last: its name, arguments and outcome
    medium,     \* the keys the backend can read and the keys it can write now
    calls,      \* the asynchronous calls in flight: where each one stands
    context     \* the state held by the UserProfileProvider component

vars == <<storage, last, medium, calls, context>>

---------------------------------------------------------------------------
(* Bounds of the model *)

\* Date.now() returns a value in 1..MaxNow.
MaxNow == 2

\* Dose recording is checked on histories of at most this many entries.
MaxHistory == 2

\* The dose-history query is checked on histories of at most this many
\* entries.
MaxQueryHistory == 3

\* The clock. Date.now() is the wall clock: two reads may return the same
\* millisecond, and the value may go back when the clock is adjusted, so
\* every read is a free choice from Clock.
Clock == 1..MaxNow

---------------------------------------------------------------------------
(* JavaScript values *)

Num(n) == [t |-> "number", n |-> n]
Str(s) == [t |-> "string", s |-> s]
Iso(ms) == [t |-> "string", iso |-> ms]
Json(doc) == [t |-> "string", json |-> doc]
undefined == [t |-> "undefined"]
null == [t |-> "null"]
Obj(props) == [t |-> "object", props |-> props]
Arr(items) == [t |-> "array", items |-> items]

\* typeof x
TypeOf(x) ==
    IF x.t \in {"null", "array"} THEN "object" ELSE x.t

\* ToBoolean(x): what `!x`, `x || y` and `if (x)` test.
Truthy(x) ==
    CASE x.t = "undefined" -> FALSE
      [] x.t = "null" -> FALSE
      [] x.t = "number" -> x.n # 0
      [] x.t = "string" -> IF "s" \in DOMAIN x THEN x.s # "" ELSE TRUE
      [] OTHER -> TRUE

\* x || y
Or(x, y) == IF Truthy(x) THEN x ELSE y

\* Index of key k among the own properties of o, 0 when o has no such property.
KeyIndex(o, k) ==
    LET hits == {i \in 1..Len(o.props) : o.props[i][1] = k}
    IN IF hits = {} THEN 0 ELSE CHOOSE i \in hits : TRUE

HasOwn(o, k) == KeyIndex(o, k) # 0

\* o[k]: the property's value, undefined when o has no property k.
Get(o, k) ==
    IF HasOwn(o, k) THEN o.props[KeyIndex(o, k)][2] ELSE undefined

\* A faulty property assignment that adds a property even when the object
\* has one of that name.
Set_Appending(o, k, v) ==
    Obj(Append(o.props, <<k, v>>))

\* o[k] = v: an existing property keeps its place, a new one goes last.
Set(o, k, v) ==
    IF HasOwn(o, k)
    THEN Obj([o.props EXCEPT ![KeyIndex(o, k)] = <<k, v>>])
    ELSE Obj(Append(o.props, <<k, v>>))

\* A faulty delete that empties the object.
Delete_Everything(o, k) ==
    Obj(<<>>)

\* delete o[k]
Delete(o, k) ==
    Obj(SelectSeq(o.props, LAMBDA p : p[1] # k))

\* Object.values(o)
ObjectValues(o) == [i \in 1..Len(o.props) |-> o.props[i][2]]

\* Object.keys(o), as a set
Keys(o) == {o.props[i][1] : i \in 1..Len(o.props)}

\* { ...a, ...b }: b's properties written onto a copy of a, in b's order.
RECURSIVE SpreadInto(_, _)
SpreadInto(a, bprops) ==
    IF bprops = <<>> THEN a
    ELSE SpreadInto(Set(a, Head(bprops)[1], Head(bprops)[2]), Tail(bprops))

Spread(a, b) == SpreadInto(a, b.props)

\* JSON.stringify(x) for the values used here: a property whose value is
\* undefined is left out, at every depth; the result is a string.
RECURSIVE Serialize(_)
Serialize(x) ==
    CASE x.t = "object" ->
            LET kept == SelectSeq(x.props, LAMBDA p : p[2].t # "undefined")
            IN Obj([i \in 1..Len(kept) |-> <<kept[i][1], Serialize(kept[i][2])>>])
      [] x.t = "array" ->
            Arr([i \in 1..Len(x.items) |->
                    IF x.items[i].t = "undefined" THEN null
                    ELSE Serialize(x.items[i])])
      [] OTHER -> x

JSONstringify(x) == Json(Serialize(x))

\* JSON.parse(s) of a string JSON.stringify produced.
JSONparse(s) == s.json

\* The literals "{}" and "[]".
EmptyObjectText == Json(Obj(<<>>))
EmptyArrayText == Json(Arr(<<>>))

---------------------------------------------------------------------------
(* Storage *)

DAILY_ENTRIES == "healthtracker_daily_entries"
USER_PROFILE == "healthtracker_user_profile"
MEDICINES == "healthtracker_medicines"
MEDICINE_DOSE_HISTORY == "healthtracker_medicine_dose_history"

STORAGE_KEYS == {DAILY_ENTRIES, USER_PROFILE, MEDICINES, MEDICINE_DOSE_HISTORY}

\* The backend (localStorage or AsyncStorage) as the adapter meets it: the
\* keys whose read succeeds and the keys whose write succeeds. An access to
\* any other key throws inside the adapter, or the backend is absent
\* altogether (no key readable or writable).
WorkingMedium == [readable |-> STORAGE_KEYS, writable |-> STORAGE_KEYS]
AbsentMedium == [readable |-> {}, writable |-> {}]

\* A faulty getItem that lets the stored value through when the read fails.
getItem_Unguarded(st, key) ==
    st[key]

\* getItem(key): the stored string, null when the key is absent; the
\* adapter catches a failing read and returns null.
getItem(st, key) ==
    IF key \in medium.readable THEN st[key] ELSE null

\* setItem(key, value): the adapter catches a failing write and returns
\* normally, with nothing stored.
setItem(st, key, value) ==
    IF key \in medium.writable THEN [st EXCEPT ![key] = value] ELSE st

\* removeItem(key), with the same handling of failure.
removeItem(st, key) ==
    IF key \in medium.writable THEN [st EXCEPT ![key] = null] ELSE st

\* A call's outcome.
Returned(v) == [threw |-> FALSE, value |-> v]
Threw(msg) == [threw |-> TRUE, message |-> msg]

---------------------------------------------------------------------------
(* Strings and their order *)

\* The plain strings of the model in ascending order of their UTF-16 code
\* units, the order of the relational operators on strings. They are
\* the empty string, calendar dates YYYY-MM-DD (what getCurrentDate
\* produces) and medicine names. On dates of this one shape, and on these
\* names, localeCompare orders the same way.
StringsInOrder ==
    <<"", "2024-12-17", "2024-12-18", "2024-12-19",
      "2024-12-24", "2024-12-25", "2024-12-26",
      "2024-12-28", "2024-12-29", "2024-12-30", "2024-12-31",
      "2025-01-01", "2025-01-02", "2025-01-03", "2025-01-04",
      "2025-01-28", "2025-01-29", "2025-01-30", "2025-01-31",
      "Aspirin", "Ibuprofen">>

Rank(s) == CHOOSE i \in 1..Len(StringsInOrder) : StringsInOrder[i] = s

\* A faulty <= that leaves out equal strings.
StrLeq_Strict(a, b) ==
    Rank(a.s) < Rank(b.s)

\* a >= b and a <= b on two strings
StrGeq(a, b) == Rank(a.s) >= Rank(b.s)
StrLeq(a, b) == Rank(a.s) <= Rank(b.s)

\* a.localeCompare(b) on two of these strings: negative, zero or positive.
localeCompare(a, b) == Rank(a.s) - Rank(b.s)

\* a.localeCompare(b) on two toISOString() strings: the format has a fixed
\* width, so the strings order as their instants do.
isoLocaleCompare(a, b) == a.iso - b.iso

---------------------------------------------------------------------------
(* Daily entries: validation *)

\* A faulty validateDailyEntry with no upper limit on water.
validateDailyEntry_NoWaterLimit(water_ml, calories, steps) ==
    (IF TypeOf(water_ml) # "number" \/ water_ml.n < 0
     THEN <<"Water intake must be between 0 and 10,000 ml">> ELSE <<>>)
    \o
    (IF TypeOf(calories) # "number" \/ calories.n < 0 \/ calories.n > 10000
     THEN <<"Calories must be between 0 and 10,000">> ELSE <<>>)
    \o
    (IF TypeOf(steps) # "number" \/ steps.n < 0 \/ steps.n > 100000
     THEN <<"Steps must be between 0 and 100,000">> ELSE <<>>)

\* validateDailyEntry(water_ml, calories, steps): the list of messages.
validateDailyEntry(water_ml, calories, steps) ==
    (IF TypeOf(water_ml) # "number" \/ water_ml.n < 0 \/ water_ml.n > 10000
     THEN <<"Water intake must be between 0 and 10,000 ml">> ELSE <<>>)
    \o
    (IF TypeOf(calories) # "number" \/ calories.n < 0 \/ calories.n > 10000
     THEN <<"Calories must be between 0 and 10,000">> ELSE <<>>)
    \o
    (IF TypeOf(steps) # "number" \/ steps.n < 0 \/ steps.n > 100000
     THEN <<"Steps must be between 0 and 100,000">> ELSE <<>>)

---------------------------------------------------------------------------
(* Daily entries: the arguments the model calls with *)

\* Dates passed to saveDailyEntry: calendar dates, the empty string, a
\* missing argument and a number. getTodayEntry is called with the strings.
DateArgs ==
    {Str("2025-01-01"), Str("2025-01-02"), Str(""), undefined, Num(20250101)}

\* Dates stored and range ends asked for where getEntriesForDateRange is
\* checked: three dates to store, and as range ends those three and one date
\* on either side of them.
RangeDates ==
    {Str("2025-01-01"), Str("2025-01-02"), Str("2025-01-03")}

RangeArgs ==
    {Str("2024-12-31"), Str("2025-01-01"), Str("2025-01-02"),
     Str("2025-01-03"), Str("2025-01-04")}

\* (water_ml, calories, steps) accepted by validateDailyEntry: both ends of
\* every range.
ValidEntryArgs ==
    { <<Num(0), Num(0), Num(0)>>,
      <<Num(10000), Num(10000), Num(100000)>> }

\* (water_ml, calories, steps) with one value just outside its range.
InvalidEntryArgs ==
    { <<Num(-1), Num(0), Num(0)>>,
      <<Num(10001), Num(0), Num(0)>>,
      <<Num(0), Num(-1), Num(0)>>,
      <<Num(0), Num(10001), Num(0)>>,
      <<Num(0), Num(0), Num(-1)>>,
      <<Num(0), Num(0), Num(100001)>> }

\* The calls of saveDailyEntry: valid values with every date argument, and
\* every invalid triple with the dates that can hold an entry.
SaveCalls ==
    (DateArgs \X ValidEntryArgs)
    \cup ({d \in DateArgs : Truthy(d)} \X InvalidEntryArgs)

---------------------------------------------------------------------------
(* Daily entries: operations *)

\* The entries map as the operations read it:
\* JSON.parse(getItem(DAILY_ENTRIES) || "{}").
ReadEntries(st) == JSONparse(Or(getItem(st, DAILY_ENTRIES), EmptyObjectText))

\* A faulty NewEntry that stores no step count.
NewEntry_StepsLost(date, water_ml, calories, steps, tId, tCreated) ==
    Obj(<< <<"id", Num(tId)>>,
           <<"date", date>>,
           <<"water_ml", water_ml>>,
           <<"calories", calories>>,
           <<"steps", Num(0)>>,
           <<"created_at", Iso(tCreated)>> >>)

\* The object saveDailyEntry stores under entries[date]; id is Date.now()
\* and created_at is new Date().toISOString(), two reads of the clock in one
\* object literal, the second not earlier than the first.
NewEntry(date, water_ml, calories, steps, tId, tCreated) ==
    Obj(<< <<"id", Num(tId)>>,
           <<"date", date>>,
           <<"water_ml", water_ml>>,
           <<"calories", calories>>,
           <<"steps", steps>>,
           <<"created_at", Iso(tCreated)>> >>)

\* A faulty saveDailyEntry that tests the date for truthiness only and so
\* stores an entry under a date that is not a string.
saveDailyEntry_AnyTruthyDate(date, water_ml, calories, steps) ==
    LET call == [op |-> "saveDailyEntry", date |-> date, water_ml |-> water_ml,
                 calories |-> calories, steps |-> steps]
        validationErrors == validateDailyEntry(water_ml, calories, steps)
        key == IF TypeOf(date) = "number" THEN ToString(date.n) ELSE date.s
    IN
    IF Len(validationErrors) > 0
    THEN /\ last' = [call |-> call, out |->
                Threw(<<"Failed to save daily entry", "Invalid data", validationErrors>>)]
         /\ UNCHANGED storage
    ELSE IF ~Truthy(date)
    THEN /\ last' = [call |-> call, out |->
                Threw(<<"Failed to save daily entry", "Invalid date format">>)]
         /\ UNCHANGED storage
    ELSE \E tId \in Clock : \E tCreated \in {t \in Clock : t >= tId} :
         LET entries == Set(ReadEntries(storage), key,
                            NewEntry(date, water_ml, calories, steps, tId, tCreated))
         IN /\ storage' = setItem(storage, DAILY_ENTRIES, JSONstringify(entries))
            /\ last' = [call |-> call, out |->
                   Returned(Obj(<< <<"changes", Num(1)>>,
                                   <<"lastInsertRowid", Get(Get(entries, key), "id")>> >>))]

\* saveDailyEntry(date, water_ml, calories, steps) with the clock reading
\* values of `clock`.
saveDailyEntryAt(clock, date, water_ml, calories, steps) ==
    LET call == [op |-> "saveDailyEntry", date |-> date, water_ml |-> water_ml,
                 calories |-> calories, steps |-> steps]
        validationErrors == validateDailyEntry(water_ml, calories, steps)
    IN
    IF Len(validationErrors) > 0
    THEN /\ last' = [call |-> call, out |->
                Threw(<<"Failed to save daily entry", "Invalid data", validationErrors>>)]
         /\ UNCHANGED storage
    ELSE IF ~Truthy(date) \/ TypeOf(date) # "string"
    THEN /\ last' = [call |-> call, out |->
                Threw(<<"Failed to save daily entry", "Invalid date format">>)]
         /\ UNCHANGED storage
    ELSE \E tId \in clock : \E tCreated \in {t \in clock : t >= tId} :
         LET entries == Set(ReadEntries(storage), date.s,
                            NewEntry(date, water_ml, calories, steps, tId, tCreated))
         IN /\ storage' = setItem(storage, DAILY_ENTRIES, JSONstringify(entries))
            /\ last' = [call |-> call, out |->
                   Returned(Obj(<< <<"changes", Num(1)>>,
                                   <<"lastInsertRowid", Get(Get(entries, date.s), "id")>> >>))]

\* saveDailyEntry(date, water_ml, calories, steps)
saveDailyEntry(date, water_ml, calories, steps) ==
    saveDailyEntryAt(Clock, date, water_ml, calories, steps)

\* getTodayEntry(date): entries[date] || null
getTodayEntryResult(st, date) ==
    Or(Get(ReadEntries(st), date.s), null)

getTodayEntry(date) ==
    /\ last' = [call |-> [op |-> "getTodayEntry", date |-> date],
                out |-> Returned(getTodayEntryResult(storage, date))]
    /\ UNCHANGED storage

\* result.sort((a, b) => a.date.localeCompare(b.date)): Array.prototype.sort
\* is stable, so an element goes after the elements that do not compare
\* greater than it.
RECURSIVE SortByDate(_)
InsertByDate(sorted, e) ==
    LET after == {i \in 1..Len(sorted) :
                    localeCompare(Get(sorted[i], "date"), Get(e, "date")) > 0}
        at == IF after = {} THEN Len(sorted) + 1
              ELSE CHOOSE i \in after : \A j \in after : i <= j
    IN SubSeq(sorted, 1, at - 1) \o <<e>> \o SubSeq(sorted, at, Len(sorted))

SortByDate(seq) ==
    IF seq = <<>> THEN <<>>
    ELSE InsertByDate(SortByDate(SubSeq(seq, 1, Len(seq) - 1)), seq[Len(seq)])

\* getEntriesForDateRange(startDate, endDate)
getEntriesForDateRangeResult(st, startDate, endDate) ==
    LET result == SelectSeq(ObjectValues(ReadEntries(st)),
                    LAMBDA entry : /\ StrGeq(Get(entry, "date"), startDate)
                                   /\ StrLeq(Get(entry, "date"), endDate))
    IN Arr(SortByDate(result))

getEntriesForDateRange(startDate, endDate) ==
    /\ last' = [call |-> [op |-> "getEntriesForDateRange",
                          startDate |-> startDate, endDate |-> endDate],
                out |-> Returned(getEntriesForDateRangeResult(storage, startDate, endDate))]
    /\ UNCHANGED storage

---------------------------------------------------------------------------
(* Specification of the daily-entry operations *)

\* Before the first call: nothing is stored under any key.
\* The callers that can have a call in flight at the same time.
Procs == {"first", "second"}

\* A caller with no call in flight.
Idle == [pc |-> "idle"]

\* The provider before it is rendered.
Unmounted == [mounted |-> FALSE]

Init ==
    /\ storage = [k \in STORAGE_KEYS |-> null]
    /\ last = [call |-> [op |-> "none"], out |-> Returned(undefined)]
    /\ medium = WorkingMedium
    /\ calls = [p \in Procs |-> Idle]
    /\ context = Unmounted

SaveDailyEntryStep ==
    /\ \E c \in SaveCalls :
           saveDailyEntry(c[1], c[2][1], c[2][2], c[2][3])
    /\ UNCHANGED <<medium, calls, context>>

GetTodayEntryStep ==
    /\ \E date \in {d \in DateArgs : TypeOf(d) = "string"} : getTodayEntry(date)
    /\ UNCHANGED <<medium, calls, context>>

NextEntries ==
    \/ SaveDailyEntryStep
    \/ GetTodayEntryStep

SpecEntries == Init /\ [][NextEntries]_vars

---------------------------------------------------------------------------
(* Specification of the range query over stored entries *)

SaveRangeEntryStep ==
    /\ \E date \in RangeDates :
           saveDailyEntry(date, Num(1000), Num(500), Num(2000))
    /\ UNCHANGED <<medium, calls, context>>

GetEntriesForDateRangeStep ==
    /\ \E startDate \in RangeArgs, endDate \in RangeArgs :
           getEntriesForDateRange(startDate, endDate)
    /\ UNCHANGED <<medium, calls, context>>

NextRange ==
    \/ SaveRangeEntryStep
    \/ GetEntriesForDateRangeStep

SpecRange == Init /\ [][NextRange]_vars

---------------------------------------------------------------------------
(* Claims about the daily entries *)

\* The step just taken is a call of op that returned normally.
ReturnedFrom(l, op) == l.call.op = op /\ ~l.out.threw

\* The step just taken is a call of op that threw.
ThrewFrom(l, op) == l.call.op = op /\ l.out.threw

\* The stored entries map: the parsed document, the empty object when the
\* key holds nothing.
StoredEntries(st) ==
    IF st[DAILY_ENTRIES].t = "null" THEN Obj(<<>>) ELSE st[DAILY_ENTRIES].json

\* The three metrics of an entry object.
Metrics(entry) ==
    <<Get(entry, "water_ml"), Get(entry, "calories"), Get(entry, "steps")>>

\* C1: round trip. When saveDailyEntry(date, w, c, s) has returned and the
\* same caller next calls getTodayEntry(date), the call returns an entry
\* whose water_ml, calories and steps are w, c and s.
C1_RoundTrip ==
    [][ ( /\ ReturnedFrom(last, "saveDailyEntry")
          /\ ReturnedFrom(last', "getTodayEntry")
          /\ last'.call.date = last.call.date )
        => ( /\ last'.out.value.t = "object"
             /\ Metrics(last'.out.value)
                  = <<last.call.water_ml, last.call.calories, last.call.steps>> )
      ]_vars

\* C1 witness: getTodayEntry has returned an entry that holds the upper end
\* of every range.
C1_Witness ==
    /\ ReturnedFrom(last, "getTodayEntry")
    /\ last.out.value.t = "object"
    /\ Metrics(last.out.value) = <<Num(10000), Num(10000), Num(100000)>>

\* A value of the call's arguments lies outside its range.
OutOfBounds(call) ==
    \/ call.water_ml.n < 0 \/ call.water_ml.n > 10000
    \/ call.calories.n < 0 \/ call.calories.n > 10000
    \/ call.steps.n < 0 \/ call.steps.n > 100000

\* C2: a saveDailyEntry call with a value outside its range throws the
\* validation error and leaves the stored entries as they were.
C2_InvalidRejected ==
    [][ (last'.call.op = "saveDailyEntry" /\ OutOfBounds(last'.call))
        => ( /\ last'.out.threw
             /\ last'.out.message[2] = "Invalid data"
             /\ storage' = storage )
      ]_vars

\* C2 witness: a call with a value out of range has thrown for a date that
\* has a stored entry.
C2_Witness ==
    /\ ThrewFrom(last, "saveDailyEntry")
    /\ OutOfBounds(last.call)
    /\ last.call.date.t = "string"
    /\ HasOwn(StoredEntries(storage), last.call.date.s)

\* No two entries of the map share a key or a date.
OneEntryPerDate(entries) ==
    \A i, j \in 1..Len(entries.props) :
        ( \/ entries.props[i][1] = entries.props[j][1]
          \/ Get(entries.props[i][2], "date") = Get(entries.props[j][2], "date") )
        => i = j

\* C3: a saveDailyEntry call that returns leaves one entry for its date,
\* holding the call's values, and every other entry as it was; no other
\* call changes the entries. So the map holds at most one entry per date,
\* with the values of the latest completed save for that date.
C3_Overwrite ==
    [][ IF ReturnedFrom(last', "saveDailyEntry")
        THEN LET d == last'.call.date.s
                 old == StoredEntries(storage)
                 new == StoredEntries(storage')
             IN /\ Keys(new) = Keys(old) \cup {d}
                /\ OneEntryPerDate(new)
                /\ Get(Get(new, d), "date") = last'.call.date
                /\ Metrics(Get(new, d))
                     = <<last'.call.water_ml, last'.call.calories, last'.call.steps>>
                /\ \A k \in Keys(old) \ {d} : Get(new, k) = Get(old, k)
        ELSE storage' = storage
      ]_vars

\* C3 witness: the entry saved last stands before another entry in the map,
\* so the call overwrote an entry that was there.
C3_Witness ==
    /\ ReturnedFrom(last, "saveDailyEntry")
    /\ Len(StoredEntries(storage).props) = 2
    /\ StoredEntries(storage).props[1][1] = last.call.date.s
    /\ Metrics(StoredEntries(storage).props[2][2]) # Metrics(StoredEntries(storage).props[1][2])

\* The entry's date lies in [startDate, endDate].
InRange(entry, startDate, endDate) ==
    /\ Rank(startDate.s) <= Rank(Get(entry, "date").s)
    /\ Rank(Get(entry, "date").s) <= Rank(endDate.s)

\* C4: getEntriesForDateRange(a, b) returns the stored entries with
\* a <= date <= b, all of them and no other, in ascending order of date;
\* none when a > b.
C4_RangeQuery ==
    ReturnedFrom(last, "getEntriesForDateRange") =>
        LET a == last.call.startDate
            b == last.call.endDate
            r == last.out.value.items
            stored == ObjectValues(StoredEntries(storage))
        IN /\ \A i \in 1..Len(r) :
                /\ \E j \in 1..Len(stored) : stored[j] = r[i]
                /\ InRange(r[i], a, b)
           /\ \A j \in 1..Len(stored) :
                InRange(stored[j], a, b) => \E i \in 1..Len(r) : r[i] = stored[j]
           /\ \A i, j \in 1..Len(r) :
                i < j => Rank(Get(r[i], "date").s) < Rank(Get(r[j], "date").s)
           /\ Rank(a.s) > Rank(b.s) => r = <<>>

\* C4 witness: the query returned two of three stored entries, and the map
\* does not hold its entries in date order.
C4_Witness ==
    /\ ReturnedFrom(last, "getEntriesForDateRange")
    /\ Len(last.out.value.items) = 2
    /\ Len(StoredEntries(storage).props) = 3
    /\ Rank(StoredEntries(storage).props[1][1]) > Rank(StoredEntries(storage).props[3][1])

---------------------------------------------------------------------------
(* Medicines: validation *)

\* s.trim().length < 1 for the strings of the model.
IsBlank(s) == s.s \in {"", " "}

\* The messages validateMedicine pushes for the elements of times.
RECURSIVE InvalidTimes(_, _)
InvalidTimes(times, index) ==
    IF index > Len(times) THEN <<>>
    ELSE (IF TypeOf(times[index]) # "number" \/ times[index].n < 0 \/ times[index].n > 23
          THEN <<"Invalid time for dose " \o ToString(index)>> ELSE <<>>)
         \o InvalidTimes(times, index + 1)

\* validateMedicine(medicine): the list of messages.
validateMedicine(medicine) ==
    LET name == Get(medicine, "name")
        dosage == Get(medicine, "dosage")
        frequency == Get(medicine, "frequency")
        times == Get(medicine, "times")
        total_doses == Get(medicine, "total_doses")
        doses_taken == Get(medicine, "doses_taken")
    IN
    (IF ~Truthy(name) \/ TypeOf(name) # "string" \/ IsBlank(name)
     THEN <<"Medicine name is required">> ELSE <<>>)
    \o
    (IF ~Truthy(dosage) \/ TypeOf(dosage) # "string" \/ IsBlank(dosage)
     THEN <<"Dosage is required">> ELSE <<>>)
    \o
    (IF ~Truthy(frequency) \/ TypeOf(frequency) # "string"
     THEN <<"Frequency is required">> ELSE <<>>)
    \o
    (IF times.t # "array" \/ Len(times.items) = 0
     THEN <<"At least one dose time is required">>
     ELSE InvalidTimes(times.items, 1))
    \o
    (IF total_doses # undefined /\ (TypeOf(total_doses) # "number" \/ total_doses.n < 1)
     THEN <<"Total doses must be a positive number">> ELSE <<>>)
    \o
    (IF doses_taken # undefined /\ (TypeOf(doses_taken) # "number" \/ doses_taken.n < 0)
     THEN <<"Doses taken must be non-negative">> ELSE <<>>)

---------------------------------------------------------------------------
(* Medicines: operations *)

\* The property key of medicines[id] for a number id: its decimal string,
\* one key per number, written here as the number.
ToKey(id) == id.n

\* JSON.parse(getItem(MEDICINES) || "{}")
ReadMedicines(st) == JSONparse(Or(getItem(st, MEDICINES), EmptyObjectText))

\* JSON.parse(getItem(MEDICINE_DOSE_HISTORY) || "[]")
ReadHistory(st) == JSONparse(Or(getItem(st, MEDICINE_DOSE_HISTORY), EmptyArrayText))

\* A faulty initMedicines that writes the empty history whether or not one
\* is stored.
initMedicines_Resetting ==
    LET st1 == IF ~Truthy(getItem(storage, MEDICINES))
               THEN setItem(storage, MEDICINES, JSONstringify(Obj(<<>>)))
               ELSE storage
    IN /\ storage' = setItem(st1, MEDICINE_DOSE_HISTORY, JSONstringify(Arr(<<>>)))
       /\ last' = [call |-> [op |-> "initMedicines"], out |-> Returned(undefined)]

\* initMedicines(): writes "{}" and "[]" under the keys that hold nothing.
initMedicines ==
    LET st1 == IF ~Truthy(getItem(storage, MEDICINES))
               THEN setItem(storage, MEDICINES, JSONstringify(Obj(<<>>)))
               ELSE storage
        st2 == IF ~Truthy(getItem(st1, MEDICINE_DOSE_HISTORY))
               THEN setItem(st1, MEDICINE_DOSE_HISTORY, JSONstringify(Arr(<<>>)))
               ELSE st1
    IN /\ storage' = st2
       /\ last' = [call |-> [op |-> "initMedicines"], out |-> Returned(undefined)]

\* Object.values(medicines).sort((a, b) => a.name.localeCompare(b.name)),
\* a stable sort.
RECURSIVE SortByName(_)
InsertByName(sorted, m) ==
    LET after == {i \in 1..Len(sorted) :
                    localeCompare(Get(sorted[i], "name"), Get(m, "name")) > 0}
        at == IF after = {} THEN Len(sorted) + 1
              ELSE CHOOSE i \in after : \A j \in after : i <= j
    IN SubSeq(sorted, 1, at - 1) \o <<m>> \o SubSeq(sorted, at, Len(sorted))

SortByName(seq) ==
    IF seq = <<>> THEN <<>>
    ELSE InsertByName(SortByName(SubSeq(seq, 1, Len(seq) - 1)), seq[Len(seq)])

\* getAllMedicines()
getAllMedicinesResult(st) == Arr(SortByName(ObjectValues(ReadMedicines(st))))

getAllMedicines ==
    /\ last' = [call |-> [op |-> "getAllMedicines"],
                out |-> Returned(getAllMedicinesResult(storage))]
    /\ UNCHANGED storage

\* { ...medicine, id, created_at, doses_taken: medicine.doses_taken || 0 }
MedicineWithId(medicine, id, tCreated) ==
    Set(Set(Set(Spread(Obj(<<>>), medicine),
                "id", id),
            "created_at", Iso(tCreated)),
        "doses_taken", Or(Get(medicine, "doses_taken"), Num(0)))

\* saveMedicine(medicine) with the clock reading values of `clock`; id is
\* Date.now() and created_at a later read of the clock.
saveMedicineAt(clock, medicine) ==
    LET call == [op |-> "saveMedicine", medicine |-> medicine]
        validationErrors == validateMedicine(medicine)
    IN
    IF Len(validationErrors) > 0
    THEN /\ last' = [call |-> call, out |->
                Threw(<<"Invalid medicine data", validationErrors>>)]
         /\ UNCHANGED storage
    ELSE \E tId \in clock : \E tCreated \in {t \in clock : t >= tId} :
         LET id == Num(tId)
             medicines == Set(ReadMedicines(storage), ToKey(id),
                              MedicineWithId(medicine, id, tCreated))
         IN /\ storage' = setItem(storage, MEDICINES, JSONstringify(medicines))
            /\ last' = [call |-> call, out |-> Returned(id)]

saveMedicine(medicine) == saveMedicineAt(Clock, medicine)

\* A faulty updateMedicine that stores the data under an id the map does
\* not hold instead of failing.
updateMedicine_Upsert(id, medicine) ==
    LET call == [op |-> "updateMedicine", id |-> id, medicine |-> medicine]
        validationErrors == validateMedicine(medicine)
        medicines == ReadMedicines(storage)
    IN
    IF Len(validationErrors) > 0
    THEN /\ last' = [call |-> call, out |->
                Threw(<<"Invalid medicine data", validationErrors>>)]
         /\ UNCHANGED storage
    ELSE \E tUpdated \in Clock :
         LET base == IF Truthy(Get(medicines, ToKey(id)))
                     THEN Get(medicines, ToKey(id)) ELSE Obj(<<>>)
             merged == Set(Spread(base, medicine), "updated_at", Iso(tUpdated))
         IN /\ storage' = setItem(storage, MEDICINES,
                                  JSONstringify(Set(medicines, ToKey(id), merged)))
            /\ last' = [call |-> call, out |-> Returned(undefined)]

\* A faulty updateMedicine that stores the data in place of the record.
updateMedicineAt_Replacing(clock, id, medicine) ==
    LET call == [op |-> "updateMedicine", id |-> id, medicine |-> medicine]
        validationErrors == validateMedicine(medicine)
        medicines == ReadMedicines(storage)
    IN
    IF Len(validationErrors) > 0
    THEN /\ last' = [call |-> call, out |->
                Threw(<<"Invalid medicine data", validationErrors>>)]
         /\ UNCHANGED storage
    ELSE IF ~Truthy(Get(medicines, ToKey(id)))
    THEN /\ last' = [call |-> call, out |-> Threw(<<"Medicine not found">>)]
         /\ UNCHANGED storage
    ELSE \E tUpdated \in clock :
         LET merged == Set(Spread(Obj(<<>>), medicine), "updated_at", Iso(tUpdated))
         IN /\ storage' = setItem(storage, MEDICINES,
                                  JSONstringify(Set(medicines, ToKey(id), merged)))
            /\ last' = [call |-> call, out |-> Returned(undefined)]

\* updateMedicine(id, medicine) with the clock reading values of `clock`.
updateMedicineAt(clock, id, medicine) ==
    LET call == [op |-> "updateMedicine", id |-> id, medicine |-> medicine]
        validationErrors == validateMedicine(medicine)
        medicines == ReadMedicines(storage)
    IN
    IF Len(validationErrors) > 0
    THEN /\ last' = [call |-> call, out |->
                Threw(<<"Invalid medicine data", validationErrors>>)]
         /\ UNCHANGED storage
    ELSE IF ~Truthy(Get(medicines, ToKey(id)))
    THEN /\ last' = [call |-> call, out |-> Threw(<<"Medicine not found">>)]
         /\ UNCHANGED storage
    ELSE \E tUpdated \in clock :
         LET merged == Set(Spread(Get(medicines, ToKey(id)), medicine),
                           "updated_at", Iso(tUpdated))
         IN /\ storage' = setItem(storage, MEDICINES,
                                  JSONstringify(Set(medicines, ToKey(id), merged)))
            /\ last' = [call |-> call, out |-> Returned(undefined)]

\* updateMedicine(id, medicine)
updateMedicine(id, medicine) ==
    updateMedicineAt(Clock, id, medicine)

\* deleteMedicine(id)
deleteMedicine(id) ==
    LET medicines == Delete(ReadMedicines(storage), ToKey(id))
    IN /\ storage' = setItem(storage, MEDICINES, JSONstringify(medicines))
       /\ last' = [call |-> [op |-> "deleteMedicine", id |-> id],
                   out |-> Returned(undefined)]

\* The entry recordDoseTaken pushes; taken_at is the clock read when the
\* call starts and id a later Date.now().
DoseEntry(medicineId, doseTime, tNow, tId) ==
    Obj(<< <<"id", Num(tId)>>,
           <<"medicine_id", medicineId>>,
           <<"dose_time", doseTime>>,
           <<"taken_at", Iso(tNow)>> >>)

\* A faulty counter step that forgets the doses already taken.
NextDosesTaken_Reset(medicine) ==
    Num(1)

\* (medicines[medicineId].doses_taken || 0) + 1
NextDosesTaken(medicine) == Num(Or(Get(medicine, "doses_taken"), Num(0)).n + 1)

\* A faulty first half of recordDoseTaken that creates a record for a
\* medicine the map does not hold.
AfterDoseCount_Creating(st, medicineId) ==
    LET medicines == ReadMedicines(st)
        medicine == Get(medicines, ToKey(medicineId))
    IN setItem(st, MEDICINES,
           JSONstringify(Set(medicines, ToKey(medicineId),
               IF Truthy(medicine)
               THEN Set(medicine, "doses_taken", NextDosesTaken(medicine))
               ELSE Obj(<< <<"doses_taken", Num(1)>> >>))))

\* The storage after the first half of recordDoseTaken: the medicine's
\* counter raised and the map written, when the map holds the medicine.
AfterDoseCount(st, medicineId) ==
    LET medicines == ReadMedicines(st)
        medicine == Get(medicines, ToKey(medicineId))
    IN IF Truthy(medicine)
       THEN setItem(st, MEDICINES,
                JSONstringify(Set(medicines, ToKey(medicineId),
                                  Set(medicine, "doses_taken", NextDosesTaken(medicine)))))
       ELSE st

\* The storage after the second half: the entry pushed and the history
\* written.
AfterHistoryPush(st, entry) ==
    setItem(st, MEDICINE_DOSE_HISTORY,
            JSONstringify(Arr(Append(ReadHistory(st).items, entry))))

\* recordDoseTaken(medicineId, doseTime) with the clock reading values of
\* `clock`.
recordDoseTakenAt(clock, medicineId, doseTime) ==
    \E tNow \in clock : \E tId \in {t \in clock : t >= tNow} :
        /\ storage' = AfterHistoryPush(AfterDoseCount(storage, medicineId),
                                       DoseEntry(medicineId, doseTime, tNow, tId))
        /\ last' = [call |-> [op |-> "recordDoseTaken", medicineId |-> medicineId,
                              doseTime |-> doseTime],
                    out |-> Returned(undefined)]

recordDoseTaken(medicineId, doseTime) ==
    recordDoseTakenAt(Clock, medicineId, doseTime)

\* history.sort((a, b) => b.taken_at.localeCompare(a.taken_at)), a stable
\* sort: an element goes after the elements not older than it.
RECURSIVE SortByTakenAtDesc(_)
InsertByTakenAtDesc(sorted, e) ==
    LET after == {i \in 1..Len(sorted) :
                    isoLocaleCompare(Get(e, "taken_at"), Get(sorted[i], "taken_at")) > 0}
        at == IF after = {} THEN Len(sorted) + 1
              ELSE CHOOSE i \in after : \A j \in after : i <= j
    IN SubSeq(sorted, 1, at - 1) \o <<e>> \o SubSeq(sorted, at, Len(sorted))

SortByTakenAtDesc(seq) ==
    IF seq = <<>> THEN <<>>
    ELSE InsertByTakenAtDesc(SortByTakenAtDesc(SubSeq(seq, 1, Len(seq) - 1)), seq[Len(seq)])

\* A faulty slice that keeps the end of the array.
SliceFromStart_FromEnd(seq, limit) ==
    SubSeq(seq, (IF limit.n < Len(seq) THEN Len(seq) - limit.n ELSE 0) + 1, Len(seq))

\* array.slice(0, limit) for a number limit >= 0.
SliceFromStart(seq, limit) ==
    SubSeq(seq, 1, IF limit.n < Len(seq) THEN limit.n ELSE Len(seq))

\* getDoseHistory(limit = 50)
getDoseHistoryResult(st, limit) ==
    LET lim == IF limit = undefined THEN Num(50) ELSE limit
    IN Arr(SliceFromStart(SortByTakenAtDesc(ReadHistory(st).items), lim))

getDoseHistory(limit) ==
    /\ last' = [call |-> [op |-> "getDoseHistory", limit |-> limit],
                out |-> Returned(getDoseHistoryResult(storage, limit))]
    /\ UNCHANGED storage

---------------------------------------------------------------------------
(* Medicines: the arguments the model calls with *)

\* The medicine of the specification's scenario: no doses_taken supplied.
MedAspirin ==
    Obj(<< <<"name", Str("Aspirin")>>,
           <<"dosage", Str("100mg")>>,
           <<"frequency", Str("daily")>>,
           <<"times", Arr(<<Num(8), Num(20)>>)>> >>)

\* What the medicine form passes (MedicineTracker.js, saveMedicineToDatabase):
\* every field of the form, total_doses undefined when the field is empty.
MedForm ==
    Obj(<< <<"name", Str("Ibuprofen")>>,
           <<"dosage", Str("200mg")>>,
           <<"frequency", Str("daily")>>,
           <<"times", Arr(<<Num(8)>>)>>,
           <<"instructions", Str("")>>,
           <<"total_doses", undefined>>,
           <<"doses_taken", Num(0)>> >>)

\* Objects validateMedicine rejects: no name, and an hour out of range.
MedNoName == Set(MedAspirin, "name", Str(" "))
MedBadHour == Set(MedAspirin, "times", Arr(<<Num(8), Num(24)>>))

\* Ids passed to updateMedicine, deleteMedicine and recordDoseTaken: every
\* id saveMedicine can have returned, stored or not.
IdArgs == {Num(t) : t \in Clock}

\* Where dose recording is checked the instants matter only as medicine
\* ids: medicines are saved at one of two instants, and every dose is
\* recorded at one instant.
DoseSaveClock == {1, 2}
DoseClock == {1}

\* The ids passed to deleteMedicine and recordDoseTaken there: the ids
\* saveMedicine can have returned, stored or not.
DoseIdArgs == {Num(t) : t \in DoseSaveClock}

\* Hours passed to recordDoseTaken.
DoseTimeArgs == {Num(8), Num(20)}

---------------------------------------------------------------------------
(* Specification of dose recording *)

InitMedicinesStep ==
    /\ initMedicines
    /\ UNCHANGED <<medium, calls, context>>

SaveAspirinStep ==
    /\ saveMedicineAt(DoseSaveClock, MedAspirin)
    /\ UNCHANGED <<medium, calls, context>>

DeleteMedicineStep ==
    /\ \E id \in DoseIdArgs : deleteMedicine(id)
    /\ UNCHANGED <<medium, calls, context>>

RecordDoseTakenStep ==
    /\ Len(ReadHistory(storage).items) < MaxHistory
    /\ \E id \in DoseIdArgs, doseTime \in DoseTimeArgs :
           recordDoseTakenAt(DoseClock, id, doseTime)
    /\ UNCHANGED <<medium, calls, context>>

GetAllMedicinesStep ==
    /\ getAllMedicines
    /\ UNCHANGED <<medium, calls, context>>

GetWholeDoseHistoryStep ==
    /\ getDoseHistory(undefined)
    /\ UNCHANGED <<medium, calls, context>>

NextDose ==
    \/ InitMedicinesStep
    \/ SaveAspirinStep
    \/ DeleteMedicineStep
    \/ RecordDoseTakenStep
    \/ GetAllMedicinesStep
    \/ GetWholeDoseHistoryStep

SpecDose == Init /\ [][NextDose]_vars

---------------------------------------------------------------------------
(* Specification of the dose-history query *)

\* Limits passed to getDoseHistory: none, and every number up to one more
\* than the history can hold.
LimitArgs == {undefined} \cup {Num(n) : n \in 0..(MaxQueryHistory + 1)}

AppendDoseStep ==
    /\ Len(ReadHistory(storage).items) < MaxQueryHistory
    /\ recordDoseTaken(Num(1), Num(8))
    /\ UNCHANGED <<medium, calls, context>>

GetDoseHistoryStep ==
    /\ \E limit \in LimitArgs : getDoseHistory(limit)
    /\ UNCHANGED <<medium, calls, context>>

NextHistory ==
    \/ AppendDoseStep
    \/ GetDoseHistoryStep

SpecHistory == Init /\ [][NextHistory]_vars

---------------------------------------------------------------------------
(* Specification of the medicine records *)

SaveMedicineStep ==
    /\ \E medicine \in {MedAspirin, MedNoName} : saveMedicine(medicine)
    /\ UNCHANGED <<medium, calls, context>>

UpdateMedicineStep ==
    /\ \E id \in IdArgs, medicine \in {MedForm, MedBadHour} :
           updateMedicine(id, medicine)
    /\ UNCHANGED <<medium, calls, context>>

RemoveMedicineStep ==
    /\ \E id \in IdArgs : deleteMedicine(id)
    /\ UNCHANGED <<medium, calls, context>>

NextMedicines ==
    \/ SaveMedicineStep
    \/ UpdateMedicineStep
    \/ RemoveMedicineStep

SpecMedicines == Init /\ [][NextMedicines]_vars

---------------------------------------------------------------------------
(* Specification of the dose history under every medicine operation *)

UpdateFormStep ==
    /\ updateMedicine(Num(1), MedForm)
    /\ UNCHANGED <<medium, calls, context>>

GetFirstDoseStep ==
    /\ getDoseHistory(Num(1))
    /\ UNCHANGED <<medium, calls, context>>

NextLog ==
    \/ InitMedicinesStep
    \/ SaveAspirinStep
    \/ UpdateFormStep
    \/ DeleteMedicineStep
    \/ RecordDoseTakenStep
    \/ GetFirstDoseStep

SpecLog == Init /\ [][NextLog]_vars

---------------------------------------------------------------------------
(* Claims about medicines and the dose history *)

\* The stored medicines map and dose history: the parsed documents, empty
\* when the key holds nothing.
StoredMedicines(st) ==
    IF st[MEDICINES].t = "null" THEN Obj(<<>>) ELSE st[MEDICINES].json

StoredHistory(st) ==
    IF st[MEDICINE_DOSE_HISTORY].t = "null" THEN <<>>
    ELSE st[MEDICINE_DOSE_HISTORY].json.items

\* The elements of a sequence, as a set.
Elements(seq) == {seq[i] : i \in 1..Len(seq)}

\* What a step of the dose-recording operations does to the stores.
\*  - recordDoseTaken(id, h) for a stored medicine raises that medicine's
\*    doses_taken by one, leaves every other property and every other
\*    medicine as it was, and appends one entry for (id, h) to the history;
\*  - saveMedicine of a medicine without doses_taken stores it with
\*    doses_taken = 0;
\*  - getAllMedicines returns the stored medicines;
\*  - getDoseHistory() returns every stored entry.
DoseStepEffect ==
    LET oldMeds == StoredMedicines(storage)
        newMeds == StoredMedicines(storage')
        oldHist == StoredHistory(storage)
        newHist == StoredHistory(storage')
        call == last'.call
    IN
    /\ ( call.op = "recordDoseTaken" /\ HasOwn(oldMeds, ToKey(call.medicineId)) ) =>
            LET k == ToKey(call.medicineId)
                before == Get(oldMeds, k)
                after == Get(newMeds, k)
            IN /\ ~last'.out.threw
               /\ Get(after, "doses_taken").n = Get(before, "doses_taken").n + 1
               /\ after = Set(before, "doses_taken", Get(after, "doses_taken"))
               /\ Keys(newMeds) = Keys(oldMeds)
               /\ \A j \in Keys(oldMeds) \ {k} : Get(newMeds, j) = Get(oldMeds, j)
               /\ Len(newHist) = Len(oldHist) + 1
               /\ SubSeq(newHist, 1, Len(oldHist)) = oldHist
               /\ Get(newHist[Len(newHist)], "medicine_id") = call.medicineId
               /\ Get(newHist[Len(newHist)], "dose_time") = call.doseTime
    /\ ( ReturnedFrom(last', "saveMedicine") /\ ~HasOwn(call.medicine, "doses_taken") ) =>
            /\ Get(Get(newMeds, ToKey(last'.out.value)), "doses_taken") = Num(0)
            /\ newHist = oldHist
    /\ ReturnedFrom(last', "getAllMedicines") =>
            /\ Elements(last'.out.value.items) = Elements(ObjectValues(oldMeds))
            /\ Len(last'.out.value.items) = Len(oldMeds.props)
            /\ storage' = storage
    /\ ( ReturnedFrom(last', "getDoseHistory") /\ call.limit = undefined ) =>
            /\ Elements(last'.out.value.items) = Elements(oldHist)
            /\ Len(last'.out.value.items) = Len(oldHist)
            /\ storage' = storage

\* C5: each completed recordDoseTaken(id, h) for a stored medicine raises
\* its doses_taken by exactly 1 and appends exactly one history entry with
\* medicine_id = id and dose_time = h; a medicine saved without doses_taken
\* starts at 0, and getAllMedicines and getDoseHistory return what is
\* stored, so n doses after the save show as doses_taken = n and n entries.
C5_DoseCounted == [][DoseStepEffect]_vars

\* C5 witness: two doses were recorded for a stored medicine since it was
\* saved: its counter is 2 and both history entries are its own.
C5_Witness ==
    /\ ReturnedFrom(last, "recordDoseTaken")
    /\ HasOwn(StoredMedicines(storage), ToKey(last.call.medicineId))
    /\ Get(Get(StoredMedicines(storage), ToKey(last.call.medicineId)), "doses_taken") = Num(2)
    /\ Len(StoredHistory(storage)) = 2
    /\ \A i \in 1..2 : Get(StoredHistory(storage)[i], "medicine_id") = last.call.medicineId

\* C6: recordDoseTaken(id, h) for an id the medicines map does not hold
\* returns normally, appends exactly one history entry with medicine_id = id
\* and writes nothing under the medicines key.
C6_OrphanDose ==
    [][ ( /\ last'.call.op = "recordDoseTaken"
          /\ ~HasOwn(StoredMedicines(storage), ToKey(last'.call.medicineId)) )
        => ( /\ ~last'.out.threw
             /\ Len(StoredHistory(storage')) = Len(StoredHistory(storage)) + 1
             /\ SubSeq(StoredHistory(storage'), 1, Len(StoredHistory(storage)))
                  = StoredHistory(storage)
             /\ Get(StoredHistory(storage')[Len(StoredHistory(storage'))], "medicine_id")
                  = last'.call.medicineId
             /\ storage'[MEDICINES] = storage[MEDICINES] )
      ]_vars

\* C6 witness: a dose was recorded for an id that is not stored while
\* another medicine is.
C6_Witness ==
    /\ ReturnedFrom(last, "recordDoseTaken")
    /\ ~HasOwn(StoredMedicines(storage), ToKey(last.call.medicineId))
    /\ Len(StoredMedicines(storage).props) = 1
    /\ Len(StoredHistory(storage)) > 0
    /\ Get(StoredHistory(storage)[Len(StoredHistory(storage))], "medicine_id")
         = last.call.medicineId

\* C7: every saveMedicine call that returns gives an id no stored medicine
\* has, so the number of stored medicines grows by exactly 1.
C7_UniqueIds ==
    [][ ReturnedFrom(last', "saveMedicine")
        => ( /\ ~HasOwn(StoredMedicines(storage), ToKey(last'.out.value))
             /\ Len(StoredMedicines(storage').props)
                  = Len(StoredMedicines(storage).props) + 1 )
      ]_vars

\* C8: updateMedicine(id, data) with valid data and an id the map does not
\* hold throws "Medicine not found" and leaves the storage as it was.
C8_UpdateNotFound ==
    [][ ( /\ last'.call.op = "updateMedicine"
          /\ Len(validateMedicine(last'.call.medicine)) = 0
          /\ ~HasOwn(StoredMedicines(storage), ToKey(last'.call.id)) )
        => ( /\ last'.out.threw
             /\ last'.out.message = <<"Medicine not found">>
             /\ storage' = storage )
      ]_vars

\* C8 witness: an update with valid data has thrown for an id that is not
\* stored while another medicine is.
C8_Witness ==
    /\ ThrewFrom(last, "updateMedicine")
    /\ Len(validateMedicine(last.call.medicine)) = 0
    /\ ~HasOwn(StoredMedicines(storage), ToKey(last.call.id))
    /\ Len(StoredMedicines(storage).props) > 0

\* C9: deleteMedicine(id) returns normally, removes the record with that id
\* and nothing else: the other medicines keep their values and their order,
\* and the dose history is as it was.
C9_DeleteFrame ==
    [][ last'.call.op = "deleteMedicine"
        => LET old == StoredMedicines(storage)
               new == StoredMedicines(storage')
               k == ToKey(last'.call.id)
           IN /\ ~last'.out.threw
              /\ new.props = SelectSeq(old.props, LAMBDA p : p[1] # k)
              /\ (~HasOwn(old, k) => new = old)
              /\ storage'[MEDICINE_DOSE_HISTORY] = storage[MEDICINE_DOSE_HISTORY]
      ]_vars

\* C9 witness: a medicine was deleted while another one is stored, and the
\* history still holds an entry that refers to the deleted one.
C9_Witness ==
    /\ ReturnedFrom(last, "deleteMedicine")
    /\ ~HasOwn(StoredMedicines(storage), ToKey(last.call.id))
    /\ Len(StoredMedicines(storage).props) = 1
    /\ \E i \in 1..Len(StoredHistory(storage)) :
           Get(StoredHistory(storage)[i], "medicine_id") = last.call.id

\* The instant of an entry's taken_at.
TakenAt(entry) == Get(entry, "taken_at").iso

\* C10: getDoseHistory(limit), limit >= 0 (50 when none is given), returns
\* min(limit, length) stored entries, most recent first, none of them older
\* than a stored entry it leaves out, and leaves the storage as it was.
C10_DoseHistoryQuery ==
    [][ ReturnedFrom(last', "getDoseHistory")
        => LET limit == IF last'.call.limit = undefined THEN 50 ELSE last'.call.limit.n
               h == StoredHistory(storage)
               r == last'.out.value.items
           IN /\ Len(r) = (IF limit < Len(h) THEN limit ELSE Len(h))
              /\ \A i, j \in 1..Len(r) : i < j => TakenAt(r[i]) >= TakenAt(r[j])
              /\ \E f \in [1..Len(r) -> 1..Len(h)] :
                    /\ \A i, j \in 1..Len(r) : f[i] = f[j] => i = j
                    /\ \A i \in 1..Len(r) : r[i] = h[f[i]]
                    /\ \A j \in 1..Len(h) :
                          (\A i \in 1..Len(r) : f[i] # j)
                          => \A i \in 1..Len(r) : TakenAt(h[j]) <= TakenAt(r[i])
              /\ storage' = storage
      ]_vars

\* C10 witness: the query returned two of three stored entries, and the
\* stored history is in no order of taken_at.
C10_Witness ==
    /\ ReturnedFrom(last, "getDoseHistory")
    /\ last.call.limit = Num(2)
    /\ Len(last.out.value.items) = 2
    /\ Len(StoredHistory(storage)) = 3
    /\ TakenAt(StoredHistory(storage)[1]) > TakenAt(StoredHistory(storage)[2])
    /\ TakenAt(StoredHistory(storage)[2]) < TakenAt(StoredHistory(storage)[3])

---------------------------------------------------------------------------
(* User profile: validation and operations *)

\* profile[key] && (typeof profile[key] !== "number" || profile[key] < low ||
\* profile[key] > high): the test validateUserProfile makes of a numeric field.
FailsRange(profile, key, low, high) ==
    LET v == Get(profile, key)
    IN /\ Truthy(v)
       /\ (TypeOf(v) # "number" \/ v.n < low \/ v.n > high)

\* validateUserProfile(profile): the list of messages.
validateUserProfile(profile) ==
    (IF Truthy(Get(profile, "name")) /\ TypeOf(Get(profile, "name")) # "string"
     THEN <<"Name must be a string">> ELSE <<>>)
    \o
    (IF FailsRange(profile, "weight_kg", 20, 500)
     THEN <<"Weight must be between 20 and 500 kg">> ELSE <<>>)
    \o
    (IF FailsRange(profile, "height_cm", 50, 300)
     THEN <<"Height must be between 50 and 300 cm">> ELSE <<>>)
    \o
    (IF FailsRange(profile, "daily_water_goal_ml", 500, 5000)
     THEN <<"Water goal must be between 500 and 5,000 ml">> ELSE <<>>)
    \o
    (IF FailsRange(profile, "daily_calorie_goal", 1200, 4000)
     THEN <<"Calorie goal must be between 1,200 and 4,000 calories">> ELSE <<>>)
    \o
    (IF FailsRange(profile, "daily_step_goal", 1000, 50000)
     THEN <<"Step goal must be between 1,000 and 50,000 steps">> ELSE <<>>)

\* The profile initDatabase writes when none is stored.
defaultProfile ==
    Obj(<< <<"id", Num(1)>>,
           <<"name", Str("")>>,
           <<"birthdate", null>>,
           <<"weight_kg", null>>,
           <<"height_cm", null>>,
           <<"daily_water_goal_ml", Num(2000)>>,
           <<"daily_calorie_goal", Num(2000)>>,
           <<"daily_step_goal", Num(10000)>> >>)

\* A faulty initDatabase that writes the default profile whether or not one
\* is stored.
initDatabase_Overwriting ==
    LET st1 == IF ~Truthy(getItem(storage, DAILY_ENTRIES))
               THEN setItem(storage, DAILY_ENTRIES, JSONstringify(Obj(<<>>)))
               ELSE storage
    IN /\ storage' = setItem(st1, USER_PROFILE, JSONstringify(defaultProfile))
       /\ last' = [call |-> [op |-> "initDatabase"], out |-> Returned(null)]

\* initDatabase(): each of the two documents is written when its key reads
\* as absent.
initDatabase ==
    LET st1 == IF ~Truthy(getItem(storage, DAILY_ENTRIES))
               THEN setItem(storage, DAILY_ENTRIES, JSONstringify(Obj(<<>>)))
               ELSE storage
        st2 == IF ~Truthy(getItem(st1, USER_PROFILE))
               THEN setItem(st1, USER_PROFILE, JSONstringify(defaultProfile))
               ELSE st1
    IN /\ storage' = st2
       /\ last' = [call |-> [op |-> "initDatabase"], out |-> Returned(null)]

\* { id: 1, ...profile, updated_at: new Date().toISOString() }
UpdatedProfile(profile, tUpdated) ==
    Set(Spread(Obj(<< <<"id", Num(1)>> >>), profile), "updated_at", Iso(tUpdated))

\* saveUserProfile(profile)
saveUserProfile(profile) ==
    LET call == [op |-> "saveUserProfile", profile |-> profile]
        validationErrors == validateUserProfile(profile)
    IN
    IF Len(validationErrors) > 0
    THEN /\ last' = [call |-> call, out |->
                Threw(<<"Failed to save user profile", "Invalid profile data",
                        validationErrors>>)]
         /\ UNCHANGED storage
    ELSE \E tUpdated \in Clock :
         /\ storage' = setItem(storage, USER_PROFILE,
                               JSONstringify(UpdatedProfile(profile, tUpdated)))
         /\ last' = [call |-> call, out |->
                Returned(Obj(<< <<"changes", Num(1)>>, <<"lastInsertRowid", Num(1)>> >>))]

\* getUserProfile(): profile ? JSON.parse(profile) : null
getUserProfileResult(st) ==
    IF Truthy(getItem(st, USER_PROFILE)) THEN JSONparse(getItem(st, USER_PROFILE))
    ELSE null

getUserProfile ==
    /\ last' = [call |-> [op |-> "getUserProfile"],
                out |-> Returned(getUserProfileResult(storage))]
    /\ UNCHANGED storage

---------------------------------------------------------------------------
(* Specification of the user profile and of initialisation *)

\* The profile the profile context sends: the whole record it holds, with
\* its id and the updated_at it stamped itself.
ProfileForm ==
    Obj(<< <<"id", Num(1)>>,
           <<"birthdate", null>>,
           <<"weight_kg", Num(70)>>,
           <<"height_cm", Num(170)>>,
           <<"daily_water_goal_ml", Num(2500)>>,
           <<"daily_calorie_goal", Num(2200)>>,
           <<"daily_step_goal", Num(8000)>>,
           <<"name", Str("Ann")>>,
           <<"updated_at", Iso(1)>> >>)

\* A partial profile, and a profile that carries another id.
ProfileNameOnly == Obj(<< <<"name", Str("Ann")>> >>)
ProfileOtherId == Obj(<< <<"id", Num(2)>>, <<"name", Str("Ann")>> >>)

ValidProfileArgs == {ProfileForm, ProfileNameOnly, ProfileOtherId}

\* The numeric fields of a profile with the ends of their ranges.
ProfileRanges ==
    { <<"weight_kg", 20, 500>>,
      <<"height_cm", 50, 300>>,
      <<"daily_water_goal_ml", 500, 5000>>,
      <<"daily_calorie_goal", 1200, 4000>>,
      <<"daily_step_goal", 1000, 50000>> }

\* Profiles with one numeric field that is not a number in its range: just
\* below, just above, zero, and a string.
OutOfRangeProfileArgs ==
    UNION { { Obj(<< <<r[1], v>> >>) :
                v \in {Num(r[2] - 1), Num(r[3] + 1), Num(0), Str("abc")} } :
            r \in ProfileRanges }

InitDatabaseStep ==
    /\ initDatabase
    /\ UNCHANGED <<medium, calls, context>>

SaveUserProfileStep ==
    /\ \E profile \in ValidProfileArgs \cup OutOfRangeProfileArgs :
           saveUserProfile(profile)
    /\ UNCHANGED <<medium, calls, context>>

GetUserProfileStep ==
    /\ getUserProfile
    /\ UNCHANGED <<medium, calls, context>>

SaveFirstEntryStep ==
    /\ saveDailyEntry(Str("2025-01-01"), Num(1000), Num(500), Num(2000))
    /\ UNCHANGED <<medium, calls, context>>

NextProfile ==
    \/ InitDatabaseStep
    \/ SaveUserProfileStep
    \/ GetUserProfileStep
    \/ SaveFirstEntryStep

SpecProfile == Init /\ [][NextProfile]_vars

---------------------------------------------------------------------------
(* Claims about initialisation and the user profile *)

\* The stored profile: the parsed document, null when the key holds nothing.
StoredProfile(st) ==
    IF st[USER_PROFILE].t = "null" THEN null ELSE st[USER_PROFILE].json

C13_ProfileReplaced ==
    [][ ReturnedFrom(last', "saveUserProfile") =>
          LET p == last'.call.profile
              stored == StoredProfile(storage')
          IN /\ stored # null
             /\ Get(stored, "id") = Num(1)
             /\ \E t \in Clock : Get(stored, "updated_at") = Iso(t)
             /\ Keys(stored) \ {"id", "updated_at"} = Keys(p) \ {"id", "updated_at"}
             /\ \A key \in Keys(p) \ {"id", "updated_at"} :
                   Get(stored, key) = Get(p, key)
      ]_vars

\* The profile gives a numeric field a value that is not a number within
\* the field's range.
OutOfRange(profile) ==
    \E r \in ProfileRanges :
        LET v == Get(profile, r[1])
        IN /\ v # undefined
           /\ v # null
           /\ (TypeOf(v) # "number" \/ v.n < r[2] \/ v.n > r[3])

\* C14: saveUserProfile(p) with a numeric field out of range or of the
\* wrong type throws a validation error and leaves the storage as it was.
C14_ProfileRejected ==
    [][ ( last'.call.op = "saveUserProfile" /\ OutOfRange(last'.call.profile) )
        => ( /\ last'.out.threw
             /\ last'.out.message[2] = "Invalid profile data"
             /\ storage' = storage )
      ]_vars

---------------------------------------------------------------------------
(* Claims about the date argument of saveDailyEntry *)

\* The date is missing, empty or not a string.
BadDate(date) ==
    \/ date = undefined
    \/ TypeOf(date) # "string"
    \/ date = Str("")

\* C15: saveDailyEntry with values in range and a date that is missing,
\* empty or not a string throws the date error, which is not the error of
\* values out of range, and leaves the storage as it was.
C15_BadDateRejected ==
    [][ ( /\ last'.call.op = "saveDailyEntry"
          /\ ~OutOfBounds(last'.call)
          /\ BadDate(last'.call.date) )
        => ( /\ last'.out.threw
             /\ last'.out.message[2] = "Invalid date format"
             /\ last'.out.message[2] # "Invalid data"
             /\ storage' = storage )
      ]_vars

\* C15 witness: a call with values in range and a number for a date has
\* thrown while an entry is stored.
C15_Witness ==
    /\ ThrewFrom(last, "saveDailyEntry")
    /\ ~OutOfBounds(last.call)
    /\ TypeOf(last.call.date) = "number"
    /\ Len(StoredEntries(storage).props) > 0

---------------------------------------------------------------------------
(* Specification of the operations on a backend that can fail *)

\* States of the backend between calls: working, absent, failing every
\* write (a full or read-only store), failing every read.
ReadOnlyMedium == [readable |-> STORAGE_KEYS, writable |-> {}]
WriteOnlyMedium == [readable |-> {}, writable |-> STORAGE_KEYS]
MediumStates == {WorkingMedium, AbsentMedium, ReadOnlyMedium, WriteOnlyMedium}

\* The backend starts or stops failing.
MediumChanges ==
    /\ \E m \in MediumStates : medium' = m
    /\ UNCHANGED <<storage, last, calls, context>>

WriteEntryStep ==
    /\ saveDailyEntryAt({1}, Str("2025-01-01"), Num(1000), Num(500), Num(2000))
    /\ UNCHANGED <<medium, calls, context>>

WriteProfileStep ==
    /\ saveUserProfile(ProfileNameOnly)
    /\ UNCHANGED <<medium, calls, context>>

WriteMedicineStep ==
    /\ saveMedicineAt(DoseClock, MedAspirin)
    /\ UNCHANGED <<medium, calls, context>>

WriteUpdateStep ==
    /\ updateMedicine(Num(1), MedForm)
    /\ UNCHANGED <<medium, calls, context>>

WriteDeleteStep ==
    /\ deleteMedicine(Num(1))
    /\ UNCHANGED <<medium, calls, context>>

\* A dose is recorded while the history and every counter are below the
\* bound: a failed read makes the history start over, so the bound on the
\* history alone does not bound the counters.
WriteDoseStep ==
    /\ Len(StoredHistory(storage)) < MaxHistory
    /\ \A medicine \in Elements(ObjectValues(StoredMedicines(storage))) :
           Or(Get(medicine, "doses_taken"), Num(0)).n < MaxHistory
    /\ recordDoseTakenAt(DoseClock, Num(1), Num(8))
    /\ UNCHANGED <<medium, calls, context>>

ReadEntryStep ==
    /\ getTodayEntry(Str("2025-01-01"))
    /\ UNCHANGED <<medium, calls, context>>

ReadRangeStep ==
    /\ getEntriesForDateRange(Str("2025-01-01"), Str("2025-01-02"))
    /\ UNCHANGED <<medium, calls, context>>

NextMedium ==
    \/ MediumChanges
    \/ WriteEntryStep
    \/ WriteProfileStep
    \/ WriteMedicineStep
    \/ WriteUpdateStep
    \/ WriteDeleteStep
    \/ WriteDoseStep
    \/ ReadEntryStep
    \/ ReadRangeStep
    \/ GetUserProfileStep
    \/ GetAllMedicinesStep
    \/ GetWholeDoseHistoryStep

SpecMedium == Init /\ [][NextMedium]_vars

---------------------------------------------------------------------------
(* Claims about a failing backend *)

\* The key each writing operation writes last.
WrittenKey(op) ==
    CASE op = "saveDailyEntry" -> DAILY_ENTRIES
      [] op = "saveUserProfile" -> USER_PROFILE
      [] op \in {"saveMedicine", "updateMedicine", "deleteMedicine"} -> MEDICINES
      [] op = "recordDoseTaken" -> MEDICINE_DOSE_HISTORY

\* The key each reading operation reads, and what it returns for no data.
ReadKey(op) ==
    CASE op \in {"getTodayEntry", "getEntriesForDateRange"} -> DAILY_ENTRIES
      [] op = "getUserProfile" -> USER_PROFILE
      [] op = "getAllMedicines" -> MEDICINES
      [] op = "getDoseHistory" -> MEDICINE_DOSE_HISTORY

NoData(op) ==
    IF op \in {"getTodayEntry", "getUserProfile"} THEN null ELSE Arr(<<>>)

\* C16: a writing operation called while the backend fails the write of
\* its key throws; it does not return a result. (A step that leaves the
\* medium as it is and changes another variable is a call.)
C16_WriteFailureThrown ==
    [][ ( /\ medium' = medium
          /\ last'.call.op \in {"saveDailyEntry", "saveUserProfile", "saveMedicine",
                                "updateMedicine", "deleteMedicine", "recordDoseTaken"}
          /\ WrittenKey(last'.call.op) \notin medium.writable )
        => last'.out.threw
      ]_vars

\* C17: while the backend fails or is absent, getItem gives null for a key
\* that cannot be read, setItem and removeItem leave the stored data as
\* they are for a key that cannot be written, and each reading operation
\* called on a key that cannot be read returns null or the empty list
\* without throwing and without changing the storage.
C17_FailureSwallowed ==
    [][ /\ \A key \in STORAGE_KEYS \ medium.readable : getItem(storage, key) = null
        /\ \A key \in STORAGE_KEYS \ medium.writable :
              /\ setItem(storage, key, EmptyObjectText) = storage
              /\ removeItem(storage, key) = storage
        /\ ( /\ medium' = medium
             /\ last'.call.op \in {"getTodayEntry", "getEntriesForDateRange",
                                   "getUserProfile", "getAllMedicines", "getDoseHistory"}
             /\ ReadKey(last'.call.op) \notin medium.readable )
           => ( /\ ~last'.out.threw
                /\ last'.out.value = NoData(last'.call.op)
                /\ storage' = storage )
      ]_vars

\* C17 witness: the dose history was asked for while the backend could not
\* read it; the call returned the empty list although an entry is stored.
C17_Witness ==
    /\ ReturnedFrom(last, "getDoseHistory")
    /\ MEDICINE_DOSE_HISTORY \notin medium.readable
    /\ last.out.value = Arr(<<>>)
    /\ Len(StoredHistory(storage)) > 0

---------------------------------------------------------------------------
(* AnalyticsService: averages over a date range *)

\* Math.round(p / q) for integers p >= 0 and q > 0: the nearest integer, a
\* half going up. The double p / q is the one nearest the quotient, a
\* quotient halfway between two integers is itself a double, and for sums
\* and counts of stored entries no other quotient is near enough to a half
\* to be rounded onto it, so the result is the rounding of the exact quotient.
MathRoundOfQuotient(p, q) == (2 * p + q) \div (2 * q)

\* entries.reduce(...) over the first n entries
RECURSIVE Totals(_, _)
Totals(entries, n) ==
    IF n = 0
    THEN [water |-> 0, calories |-> 0, steps |-> 0, count |-> 0]
    ELSE LET acc == Totals(entries, n - 1)
             entry == entries[n]
         IN [water |-> acc.water + Or(Get(entry, "water_ml"), Num(0)).n,
             calories |-> acc.calories + Or(Get(entry, "calories"), Num(0)).n,
             steps |-> acc.steps + Or(Get(entry, "steps"), Num(0)).n,
             count |-> acc.count + 1]

Averages(water, calories, steps, daysTracked) ==
    Obj(<< <<"water", Num(water)>>, <<"calories", Num(calories)>>,
           <<"steps", Num(steps)>>, <<"daysTracked", Num(daysTracked)>> >>)

getWeeklyAveragesResult_SevenDays(st, startDate, endDate) ==
    LET entries == getEntriesForDateRangeResult(st, startDate, endDate).items
        totals == Totals(entries, Len(entries))
    IN IF Len(entries) = 0
       THEN Averages(0, 0, 0, 0)
       ELSE Averages(MathRoundOfQuotient(totals.water, 7),
                     MathRoundOfQuotient(totals.calories, 7),
                     MathRoundOfQuotient(totals.steps, 7),
                     totals.count)

getWeeklyAveragesResult(st, startDate, endDate) ==
    LET entries == getEntriesForDateRangeResult(st, startDate, endDate).items
        totals == Totals(entries, Len(entries))
    IN IF Len(entries) = 0
       THEN Averages(0, 0, 0, 0)
       ELSE Averages(MathRoundOfQuotient(totals.water, totals.count),
                     MathRoundOfQuotient(totals.calories, totals.count),
                     MathRoundOfQuotient(totals.steps, totals.count),
                     totals.count)

\* getWeeklyAverages(startDate, endDate)
getWeeklyAverages(startDate, endDate) ==
    /\ last' = [call |-> [op |-> "getWeeklyAverages", startDate |-> startDate,
                          endDate |-> endDate],
                out |-> Returned(getWeeklyAveragesResult(storage, startDate, endDate))]
    /\ UNCHANGED storage

---------------------------------------------------------------------------
(* AnalyticsService: chart data. A Date is modelled by its calendar day
   [y, m, d]; the process runs in UTC, so the local day that getDate and
   setDate work on is the day toISOString prints. *)

IsLeapYear(y) == (y % 4 = 0 /\ y % 100 # 0) \/ y % 400 = 0

DaysInMonth(y, m) ==
    CASE m \in {1, 3, 5, 7, 8, 10, 12} -> 31
      [] m \in {4, 6, 9, 11} -> 30
      [] OTHER -> IF IsLeapYear(y) THEN 29 ELSE 28

\* Day n of month m of year y, where n may lie outside the month: the day
\* that many days after the last day of the month before.
RECURSIVE MakeDay(_, _, _)
MakeDay(y, m, n) ==
    IF n < 1
    THEN LET py == IF m = 1 THEN y - 1 ELSE y
             pm == IF m = 1 THEN 12 ELSE m - 1
         IN MakeDay(py, pm, n + DaysInMonth(py, pm))
    ELSE IF n > DaysInMonth(y, m)
    THEN MakeDay(IF m = 12 THEN y + 1 ELSE y, IF m = 12 THEN 1 ELSE m + 1,
                 n - DaysInMonth(y, m))
    ELSE [y |-> y, m |-> m, d |-> n]

\* date.getDate()
getDate(date) == date.d

\* date.setDate(n): the date after the call
setDate(date, n) == MakeDay(date.y, date.m, n)

Pad2(n) == IF n < 10 THEN "0" \o ToString(n) ELSE ToString(n)

\* date.toISOString().split("T")[0]
IsoDay(date) ==
    Str(ToString(date.y) \o "-" \o Pad2(date.m) \o "-" \o Pad2(date.d))

\* date.toLocaleDateString("en-US", {weekday: "short"})
WeekdayShort(date) ==
    LET m == IF date.m < 3 THEN date.m + 12 ELSE date.m
        y == IF date.m < 3 THEN date.y - 1 ELSE date.y
        h == (date.d + (13 * (m + 1)) \div 5 + (y % 100) + (y % 100) \div 4
                + (y \div 100) \div 4 + 5 * (y \div 100)) % 7
    IN Str(<<"Sat", "Sun", "Mon", "Tue", "Wed", "Thu", "Fri">>[h + 1])

\* The array getChartData(days) builds when the first `new Date()` reads the
\* day endDate and the second reads the day startNow.
getChartDataResult(st, days, endDate, startNow) ==
    LET startDate == setDate(startNow, getDate(endDate) - days + 1)
        entries == getEntriesForDateRangeResult(st, IsoDay(startDate),
                                                IsoDay(endDate)).items
        Bucket(i) ==
            LET date == setDate(startDate, getDate(startDate) + i)
                dateStr == IsoDay(date)
                found == SelectSeq(entries, LAMBDA e : Get(e, "date") = dateStr)
                entry == IF Len(found) > 0 THEN found[1] ELSE undefined
                Value(key) == IF Truthy(entry) THEN Or(Get(entry, key), Num(0))
                              ELSE Num(0)
            IN Obj(<< <<"date", dateStr>>, <<"water", Value("water_ml")>>,
                      <<"calories", Value("calories")>>,
                      <<"steps", Value("steps")>>,
                      <<"label", WeekdayShort(date)>> >>)
    IN Arr([i \in 1..days |-> Bucket(i - 1)])

\* The days the clock can read: the last day of a month and the day after.
DayClock == {[y |-> 2024, m |-> 12, d |-> 31], [y |-> 2025, m |-> 1, d |-> 1]}

\* getChartData(days): the two `new Date()` calls are two reads of the
\* clock; the second reads the same day as the first or, when midnight
\* passes between them, the next. `now` records what they read.
getChartData(days) ==
    \E endDate \in DayClock :
    \E startNow \in {endDate, setDate(endDate, getDate(endDate) + 1)} :
        /\ last' = [call |-> [op |-> "getChartData", days |-> days],
                    out |-> Returned(getChartDataResult(storage, days,
                                                        endDate, startNow)),
                    now |-> <<endDate, startNow>>]
        /\ UNCHANGED storage

---------------------------------------------------------------------------
(* Specification of the analytics queries over stored entries *)

MaxDays == 3

AnalyticsDates ==
    {Str("2024-12-31"), Str("2025-01-01"), Str("2025-01-02")}

\* Two days' values whose sums are odd, so that their mean is not a whole
\* number.
AnalyticsEntryArgs ==
    { <<Num(1000), Num(500), Num(2000)>>,
      <<Num(1001), Num(501), Num(2001)>> }

SaveAnalyticsEntryStep ==
    /\ \E date \in AnalyticsDates, v \in AnalyticsEntryArgs :
           saveDailyEntryAt({1}, date, v[1], v[2], v[3])
    /\ UNCHANGED <<medium, calls, context>>

GetWeeklyAveragesStep ==
    /\ \E startDate \in AnalyticsDates, endDate \in AnalyticsDates :
           getWeeklyAverages(startDate, endDate)
    /\ UNCHANGED <<medium, calls, context>>

GetChartDataStep ==
    /\ \E days \in 1..MaxDays : getChartData(days)
    /\ UNCHANGED <<medium, calls, context>>

NextAnalytics ==
    \/ SaveAnalyticsEntryStep
    \/ GetWeeklyAveragesStep
    \/ GetChartDataStep

SpecAnalytics == Init /\ [][NextAnalytics]_vars

---------------------------------------------------------------------------
(* Claims about the analytics queries *)

\* The stored entries whose date lies in [startDate, endDate].
EntriesInRange(st, startDate, endDate) ==
    SelectSeq(ObjectValues(ReadEntries(st)),
              LAMBDA entry : InRange(entry, startDate, endDate))

RECURSIVE SumOf(_, _, _)
SumOf(entries, key, n) ==
    IF n = 0 THEN 0 ELSE SumOf(entries, key, n - 1) + Get(entries[n], key).n

\* r is a whole number nearest to p / q, a half going up (q > 0).
RoundedMean(r, p, q) == 2 * q * r - q <= 2 * p /\ 2 * p < 2 * q * r + q

\* C18 as stated: getWeeklyAverages(start, end) returns daysTracked = the
\* number of stored entries dated in [start, end] and, when there are any,
\* each metric equal to the sum of that metric over those entries divided by
\* daysTracked; all four are 0 when there are none.
C18_ExactMean ==
    [][ReturnedFrom(last', "getWeeklyAverages") =>
        LET r == last'.out.value
            inRange == EntriesInRange(storage, last'.call.startDate,
                                      last'.call.endDate)
            n == Len(inRange)
        IN /\ Get(r, "daysTracked") = Num(n)
           /\ n = 0 => /\ Get(r, "water") = Num(0)
                       /\ Get(r, "calories") = Num(0)
                       /\ Get(r, "steps") = Num(0)
           /\ n > 0 => /\ Get(r, "water").n * n = SumOf(inRange, "water_ml", n)
                       /\ Get(r, "calories").n * n = SumOf(inRange, "calories", n)
                       /\ Get(r, "steps").n * n = SumOf(inRange, "steps", n)
      ]_vars

\* C18 amended: getWeeklyAverages(start, end) returns daysTracked = the
\* number of stored entries dated in [start, end] and, when there are any,
\* each metric equal to the sum of that metric over those entries divided by
\* daysTracked and rounded to the nearest whole number, a half going up; all
\* four are 0 when there are none.
C18_RoundedMean ==
    [][ReturnedFrom(last', "getWeeklyAverages") =>
        LET r == last'.out.value
            inRange == EntriesInRange(storage, last'.call.startDate,
                                      last'.call.endDate)
            n == Len(inRange)
        IN /\ Get(r, "daysTracked") = Num(n)
           /\ n = 0 => /\ Get(r, "water") = Num(0)
                       /\ Get(r, "calories") = Num(0)
                       /\ Get(r, "steps") = Num(0)
           /\ n > 0 => /\ RoundedMean(Get(r, "water").n,
                                      SumOf(inRange, "water_ml", n), n)
                       /\ RoundedMean(Get(r, "calories").n,
                                      SumOf(inRange, "calories", n), n)
                       /\ RoundedMean(Get(r, "steps").n,
                                      SumOf(inRange, "steps", n), n)
      ]_vars

\* Three entries are stored, the range asked for holds two of them, and the
\* mean of their water is not a whole number: the result counts two days and
\* carries the mean rounded up.
C18_Witness ==
    /\ ReturnedFrom(last, "getWeeklyAverages")
    /\ Len(ObjectValues(ReadEntries(storage))) = 3
    /\ Get(last.out.value, "daysTracked") = Num(2)
    /\ LET inRange == EntriesInRange(storage, last.call.startDate,
                                     last.call.endDate)
       IN /\ Len(inRange) = 2
          /\ SumOf(inRange, "water_ml", 2) = 2001
    /\ Get(last.out.value, "water") = Num(1001)

---------------------------------------------------------------------------
(* AnalyticsService: progress towards a goal *)

MaxCurrent == 12
MaxGoal == 8

\* The values Math.round((current / goal) * 100) can take for integers
\* current >= 0 and goal > 0. The quotient and the product are each rounded
\* to a double, so the operand of Math.round is the exact percentage or a
\* double next to it: away from a half that is the nearest integer; where
\* the exact percentage lies halfway between two integers the double may
\* fall on either side or on the half, and Math.round gives either integer.
MathRoundOfPercent(current, goal) ==
    LET k == (100 * current) \div goal
    IN IF (200 * current) % goal = 0 /\ ((200 * current) \div goal) % 2 = 1
       THEN {k, k + 1}
       ELSE {(200 * current + goal) \div (2 * goal)}

\* Math.min(a, b)
MathMin(a, b) == IF a < b THEN a ELSE b

calculateProgressResults_Unclamped(current, goal) ==
    IF goal = 0 THEN {0}
    ELSE MathRoundOfPercent(current, goal)

\* The values calculateProgress(current, goal) can return.
calculateProgressResults(current, goal) ==
    IF goal = 0 THEN {0}
    ELSE {MathMin(r, 100) : r \in MathRoundOfPercent(current, goal)}

\* calculateProgress(current, goal)
calculateProgress(current, goal) ==
    \E r \in calculateProgressResults(current, goal) :
        /\ last' = [call |-> [op |-> "calculateProgress", current |-> current,
                              goal |-> goal],
                    out |-> Returned(Num(r))]
        /\ UNCHANGED storage

CalculateProgressStep ==
    /\ \E current \in 0..MaxCurrent, goal \in 0..MaxGoal :
           calculateProgress(current, goal)
    /\ UNCHANGED <<medium, calls, context>>

NextProgress == CalculateProgressStep

SpecProgress == Init /\ [][NextProgress]_vars

\* C19 as stated: calculateProgress(current, goal) is 0 for goal = 0, is 100
\* for current > goal, equals min(current / goal * 100, 100) for every other
\* input, and never exceeds 100.
C19_ProgressClamped ==
    ReturnedFrom(last, "calculateProgress") =>
        LET current == last.call.current
            goal == last.call.goal
            r == last.out.value.n
        IN /\ r <= 100
           /\ goal = 0 => r = 0
           /\ goal # 0 /\ current > goal => r = 100
           /\ goal # 0 /\ current <= goal => r * goal = 100 * current

\* C19 amended: for whole numbers current >= 0 and goal >= 0,
\* calculateProgress(current, goal) is 0 for goal = 0, is 100 for
\* current > goal > 0, is otherwise current / goal * 100 rounded to a nearest
\* whole number, and never exceeds 100.
C19_ProgressRounded ==
    ReturnedFrom(last, "calculateProgress") =>
        LET current == last.call.current
            goal == last.call.goal
            r == last.out.value.n
        IN /\ r <= 100
           /\ goal = 0 => r = 0
           /\ goal # 0 /\ current > goal => r = 100
           /\ goal # 0 /\ current <= goal =>
                  /\ 2 * goal * r - goal <= 200 * current
                  /\ 200 * current <= 2 * goal * r + goal

\* A third of the goal is reported as 33: the percentage has been rounded.
C19_Witness ==
    /\ ReturnedFrom(last, "calculateProgress")
    /\ last.call.current = 1
    /\ last.call.goal = 3
    /\ last.out.value = Num(33)

---------------------------------------------------------------------------
(* Claim about the chart data *)

\* The buckets r are `days` consecutive days ending on the day today, in
\* ascending order, each carrying the values of the entry stored under its
\* date, or zeros where none is stored.
ChartEndsOn(r, days, today, st) ==
    /\ Len(r) = days
    /\ \A i \in 1..days :
           LET date == IsoDay(setDate(today, getDate(today) - days + i))
               stored == Get(ReadEntries(st), date.s)
               Expected(key) == IF stored = undefined THEN Num(0)
                                ELSE Get(stored, key)
           IN /\ Get(r[i], "date") = date
              /\ Get(r[i], "water") = Expected("water_ml")
              /\ Get(r[i], "calories") = Expected("calories")
              /\ Get(r[i], "steps") = Expected("steps")

\* C20: getChartData(days) returns exactly `days` buckets dated with the
\* `days` consecutive calendar days ending today, ascending; a bucket whose
\* date has a stored entry carries that entry's values, every other bucket
\* has water = calories = steps = 0. Today is a day the clock read during
\* the call.
C20_ChartBuckets ==
    [][ReturnedFrom(last', "getChartData") =>
        \E today \in {last'.now[1], last'.now[2]} :
            ChartEndsOn(last'.out.value.items, last'.call.days, today, storage)
      ]_vars

---------------------------------------------------------------------------
(* AnalyticsService: trend and summary *)

\* The trends analyzeTrend(currentWeek, previousWeek) can return for windows
\* of whole numbers >= 0. A change against a previous value of 0 is a
\* division by zero: NaN for 0 / 0, which makes every comparison false, and
\* Infinity otherwise. The finite average is compared exactly, as
\* 10 * sum((c - p) / p) against 3; where it is exactly 10 or -10 the doubles
\* may fall on either side.
analyzeTrendResults_NoFirstWeek(currentWeek, previousWeek) ==
    LET c == <<Get(currentWeek, "water").n, Get(currentWeek, "calories").n,
               Get(currentWeek, "steps").n>>
        p == <<Get(previousWeek, "water").n, Get(previousWeek, "calories").n,
               Get(previousWeek, "steps").n>>
        product == p[1] * p[2] * p[3]
        scaled == (c[1] - p[1]) * p[2] * p[3] + (c[2] - p[2]) * p[1] * p[3]
                      + (c[3] - p[3]) * p[1] * p[2]
    IN IF \E i \in 1..3 : p[i] = 0 /\ c[i] = 0 THEN {"stable"}
       ELSE IF \E i \in 1..3 : p[i] = 0 THEN {"improving"}
       ELSE IF 10 * scaled > 3 * product THEN {"improving"}
       ELSE IF 10 * scaled = 3 * product THEN {"improving", "stable"}
       ELSE IF 10 * scaled < -3 * product THEN {"declining"}
       ELSE IF 10 * scaled = -3 * product THEN {"declining", "stable"}
       ELSE {"stable"}

analyzeTrendResults(currentWeek, previousWeek) ==
    LET c == <<Get(currentWeek, "water").n, Get(currentWeek, "calories").n,
               Get(currentWeek, "steps").n>>
        p == <<Get(previousWeek, "water").n, Get(previousWeek, "calories").n,
               Get(previousWeek, "steps").n>>
        product == p[1] * p[2] * p[3]
        scaled == (c[1] - p[1]) * p[2] * p[3] + (c[2] - p[2]) * p[1] * p[3]
                      + (c[3] - p[3]) * p[1] * p[2]
    IN IF /\ ~Truthy(Get(previousWeek, "water"))
          /\ ~Truthy(Get(previousWeek, "calories"))
          /\ ~Truthy(Get(previousWeek, "steps"))
       THEN {"new"}
       ELSE IF \E i \in 1..3 : p[i] = 0 /\ c[i] = 0 THEN {"stable"}
       ELSE IF \E i \in 1..3 : p[i] = 0 THEN {"improving"}
       ELSE IF 10 * scaled > 3 * product THEN {"improving"}
       ELSE IF 10 * scaled = 3 * product THEN {"improving", "stable"}
       ELSE IF 10 * scaled < -3 * product THEN {"declining"}
       ELSE IF 10 * scaled = -3 * product THEN {"declining", "stable"}
       ELSE {"stable"}

\* analyzeTrend(currentWeek, previousWeek)
analyzeTrend(currentWeek, previousWeek) ==
    \E trend \in analyzeTrendResults(currentWeek, previousWeek) :
        /\ last' = [call |-> [op |-> "analyzeTrend", currentWeek |-> currentWeek,
                              previousWeek |-> previousWeek],
                    out |-> Returned(Str(trend))]
        /\ UNCHANGED storage

\* getSummaryStats(): `new Date()` is called three times, for today, thisWeek
\* and lastWeek; each read is the day of the read before or, when midnight
\* has passed, the next. `now` records the three days read.
getSummaryStats ==
    \E t1 \in DayClock :
    \E t2 \in {t1, setDate(t1, getDate(t1) + 1)} :
    \E t3 \in {t \in {t1, setDate(t1, getDate(t1) + 1)} : t2 = t1 \/ t = t2} :
        LET today == IsoDay(t1)
            thisWeek == setDate(t2, getDate(t2) - 7)
            lastWeek == setDate(t3, getDate(t3) - 14)
            todayData == getWeeklyAveragesResult(storage, today, today)
            thisWeekData == getWeeklyAveragesResult(storage, IsoDay(thisWeek), today)
            lastWeekData == getWeeklyAveragesResult(storage, IsoDay(lastWeek),
                                                    IsoDay(thisWeek))
        IN \E trend \in analyzeTrendResults(thisWeekData, lastWeekData) :
            /\ last' = [call |-> [op |-> "getSummaryStats"],
                        out |-> Returned(Obj(<< <<"today", todayData>>,
                                                <<"thisWeek", thisWeekData>>,
                                                <<"lastWeek", lastWeekData>>,
                                                <<"trend", Str(trend)>> >>)),
                        now |-> <<t1, t2, t3>>]
            /\ UNCHANGED storage

---------------------------------------------------------------------------
(* Specification of the trend and the summary *)

\* Stored dates: 14, 7 and 6 days before 2024-12-31, and that day.
SummaryDates ==
    {Str("2024-12-17"), Str("2024-12-24"), Str("2024-12-25"), Str("2024-12-31")}

\* Windows passed to analyzeTrend: current windows below, at, 10% and 20%
\* above the previous values and with zeros; previous windows all zero, all
\* non-zero and with one or two zeros.
CurrentWindows ==
    {Averages(0, 0, 0, 0), Averages(8, 8, 8, 1), Averages(10, 10, 10, 1),
     Averages(11, 11, 11, 1), Averages(12, 12, 12, 1), Averages(0, 10, 12, 1)}

PreviousWindows ==
    {Averages(0, 0, 0, 0), Averages(0, 0, 0, 7), Averages(10, 10, 10, 1),
     Averages(0, 10, 10, 1), Averages(10, 0, 0, 1), Averages(0, 0, 10, 2)}

SaveSummaryEntryStep ==
    /\ \E date \in SummaryDates :
           saveDailyEntryAt({1}, date, Num(10), Num(5), Num(20))
    /\ UNCHANGED <<medium, calls, context>>

AnalyzeTrendStep ==
    /\ \E currentWeek \in CurrentWindows, previousWeek \in PreviousWindows :
           analyzeTrend(currentWeek, previousWeek)
    /\ UNCHANGED <<medium, calls, context>>

GetSummaryStatsStep ==
    /\ getSummaryStats
    /\ UNCHANGED <<medium, calls, context>>

NextSummary ==
    \/ SaveSummaryEntryStep
    \/ AnalyzeTrendStep
    \/ GetSummaryStatsStep

SpecSummary == Init /\ [][NextSummary]_vars

---------------------------------------------------------------------------
(* Claims about the trend and the summary *)

\* C21: analyzeTrend(current, previous) returns "new" for every current
\* window whenever previous.water, previous.calories and previous.steps are
\* all zero; and getSummaryStats reports trend "new" whenever no stored entry
\* is dated in the range it queries for the previous window.
C21_NewTrend ==
    [][ /\ ReturnedFrom(last', "analyzeTrend") =>
               LET previous == last'.call.previousWeek
               IN (/\ Get(previous, "water") = Num(0)
                   /\ Get(previous, "calories") = Num(0)
                   /\ Get(previous, "steps") = Num(0))
                  => last'.out.value = Str("new")
        /\ ReturnedFrom(last', "getSummaryStats") =>
               LET from == IsoDay(setDate(last'.now[3], getDate(last'.now[3]) - 14))
                   to == IsoDay(setDate(last'.now[2], getDate(last'.now[2]) - 7))
               IN Len(EntriesInRange(storage, from, to)) = 0
                  => Get(last'.out.value, "trend") = Str("new")
      ]_vars

\* analyzeTrend has answered "new" for a current window that is not zero.
C21_Witness ==
    /\ ReturnedFrom(last, "analyzeTrend")
    /\ Get(last.call.previousWeek, "water") = Num(0)
    /\ Get(last.call.previousWeek, "calories") = Num(0)
    /\ Get(last.call.previousWeek, "steps") = Num(0)
    /\ Get(last.call.currentWeek, "water") = Num(12)
    /\ last.out.value = Str("new")

\* getSummaryStats has answered "new" on a store that holds entries, none of
\* them in the previous window.
C21_SummaryWitness ==
    /\ ReturnedFrom(last, "getSummaryStats")
    /\ Len(ObjectValues(ReadEntries(storage))) = 2
    /\ Get(Get(last.out.value, "thisWeek"), "daysTracked") = Num(2)
    /\ Get(Get(last.out.value, "lastWeek"), "daysTracked") = Num(0)
    /\ Get(last.out.value, "trend") = Str("new")

\* The day k days before the day date.
DaysBefore(date, k) == setDate(date, getDate(date) - k)

\* The summary r aggregates the three windows relative to the day T: today
\* is [T, T], thisWeek the 7 days ending at T, lastWeek the 7 days before
\* those, and the trend is that of thisWeek against lastWeek.
SummaryOf(r, T, st) ==
    /\ Get(r, "today") = getWeeklyAveragesResult(st, IsoDay(T), IsoDay(T))
    /\ Get(r, "thisWeek") =
           getWeeklyAveragesResult(st, IsoDay(DaysBefore(T, 6)), IsoDay(T))
    /\ Get(r, "lastWeek") =
           getWeeklyAveragesResult(st, IsoDay(DaysBefore(T, 13)),
                                   IsoDay(DaysBefore(T, 7)))
    /\ Get(r, "trend").s \in
           analyzeTrendResults(Get(r, "thisWeek"), Get(r, "lastWeek"))

\* C27: getSummaryStats aggregates three windows relative to today T:
\* today = [T, T], thisWeek = exactly the 7 calendar days ending at T,
\* lastWeek = exactly the 7 calendar days immediately before thisWeek, so no
\* stored entry is counted in both, and trend is
\* analyzeTrend(thisWeek, lastWeek). T is a day the clock read during the
\* call.
C27_SummaryWindows ==
    [][ReturnedFrom(last', "getSummaryStats") =>
        \E T \in {last'.now[1], last'.now[2], last'.now[3]} :
            SummaryOf(last'.out.value, T, storage)
      ]_vars

---------------------------------------------------------------------------
(* Calls in flight. An `async` function runs until its first `await`, gives
   way there, and goes on when the awaited storage access has finished. The
   writes of the record store await mobileStorage.getItem and
   mobileStorage.setItem on the asynchronous backend; their web branches
   call webStorage and hold no await. A call in flight is a record: its
   name and arguments (call), where it stands (pc: "getItem" before the read
   it awaits, "setItem" before the write it awaits, "done"), the key it
   accesses next, the value it is about to write, what it read last
   (snapshot), the storage when it began (origin) and what it will return. *)

\* Another caller's call is between its first and its last step.
Busy(p) == \E q \in Procs \ {p} : calls[q].pc \in {"getItem", "setItem"}

MayRun_Yielding(web, p) ==
    TRUE

\* A call may take a step: on the synchronous backend only when no other
\* call is between two of its steps, since nothing there gives way.
MayRun(web, p) ==
    web => ~Busy(p)

Finished(call, out, origin) ==
    [pc |-> "done", call |-> call, out |-> out, origin |-> origin]

\* The part of saveDailyEntry before its first storage access.
BeginSaveDailyEntry(web, p, date, water_ml, calories, steps) ==
    LET call == [op |-> "saveDailyEntry", date |-> date, water_ml |-> water_ml,
                 calories |-> calories, steps |-> steps]
        validationErrors == validateDailyEntry(water_ml, calories, steps)
    IN /\ calls[p] = Idle
       /\ MayRun(web, p)
       /\ calls' = [calls EXCEPT ![p] =
            IF Len(validationErrors) > 0
            THEN Finished(call, Threw(<<"Failed to save daily entry",
                                        "Invalid data", validationErrors>>), storage)
            ELSE IF ~Truthy(date) \/ TypeOf(date) # "string"
            THEN Finished(call, Threw(<<"Failed to save daily entry",
                                        "Invalid date format">>), storage)
            ELSE [pc |-> "getItem", call |-> call, key |-> DAILY_ENTRIES,
                  origin |-> storage]]
       /\ UNCHANGED <<storage, last, medium, context>>

\* The part of saveUserProfile before its storage access: the profile is
\* validated and stamped, and nothing is read.
BeginSaveUserProfile(web, p, profile, clock) ==
    LET call == [op |-> "saveUserProfile", profile |-> profile]
        validationErrors == validateUserProfile(profile)
    IN /\ calls[p] = Idle
       /\ MayRun(web, p)
       /\ \E tUpdated \in clock :
            calls' = [calls EXCEPT ![p] =
              IF Len(validationErrors) > 0
              THEN Finished(call, Threw(<<"Failed to save user profile",
                                          "Invalid profile data", validationErrors>>),
                            storage)
              ELSE [pc |-> "setItem", call |-> call, key |-> USER_PROFILE,
                    value |-> JSONstringify(UpdatedProfile(profile, tUpdated)),
                    snapshot |-> null, origin |-> storage,
                    out |-> Returned(Obj(<< <<"changes", Num(1)>>,
                                            <<"lastInsertRowid", Num(1)>> >>))]]
       /\ UNCHANGED <<storage, last, medium, context>>

\* The part of saveMedicine before its first storage access: the id and
\* created_at are read from the clock here.
BeginSaveMedicine(web, p, medicine, clock) ==
    LET call == [op |-> "saveMedicine", medicine |-> medicine]
        validationErrors == validateMedicine(medicine)
    IN /\ calls[p] = Idle
       /\ MayRun(web, p)
       /\ \E tId \in clock : \E tCreated \in {t \in clock : t >= tId} :
            calls' = [calls EXCEPT ![p] =
              IF Len(validationErrors) > 0
              THEN Finished(call, Threw(<<"Invalid medicine data", validationErrors>>),
                            storage)
              ELSE [pc |-> "getItem", call |-> call, key |-> MEDICINES,
                    medicineWithId |-> MedicineWithId(medicine, Num(tId), tCreated),
                    origin |-> storage]]
       /\ UNCHANGED <<storage, last, medium, context>>

\* The part of updateMedicine before its first storage access.
BeginUpdateMedicine(web, p, id, medicine) ==
    LET call == [op |-> "updateMedicine", id |-> id, medicine |-> medicine]
        validationErrors == validateMedicine(medicine)
    IN /\ calls[p] = Idle
       /\ MayRun(web, p)
       /\ calls' = [calls EXCEPT ![p] =
            IF Len(validationErrors) > 0
            THEN Finished(call, Threw(<<"Invalid medicine data", validationErrors>>),
                          storage)
            ELSE [pc |-> "getItem", call |-> call, key |-> MEDICINES,
                  origin |-> storage]]
       /\ UNCHANGED <<storage, last, medium, context>>

\* The part of deleteMedicine before its first storage access.
BeginDeleteMedicine(web, p, id) ==
    /\ calls[p] = Idle
    /\ MayRun(web, p)
    /\ calls' = [calls EXCEPT ![p] =
            [pc |-> "getItem", call |-> [op |-> "deleteMedicine", id |-> id],
             key |-> MEDICINES, origin |-> storage]]
    /\ UNCHANGED <<storage, last, medium, context>>

\* The part of recordDoseTaken before its first storage access: `now` is
\* read from the clock here.
BeginRecordDoseTaken(web, p, medicineId, doseTime, clock) ==
    /\ calls[p] = Idle
    /\ MayRun(web, p)
    /\ \E tNow \in clock :
         calls' = [calls EXCEPT ![p] =
            [pc |-> "getItem",
             call |-> [op |-> "recordDoseTaken", medicineId |-> medicineId,
                       doseTime |-> doseTime],
             key |-> MEDICINES, now |-> tNow, origin |-> storage]]
    /\ UNCHANGED <<storage, last, medium, context>>

\* What a call goes on with once the read it awaited has returned `read`:
\* the value it writes next, or its outcome when it writes nothing.
AfterGetItem(c, read, clock) ==
    LET next == [c EXCEPT !.pc = "setItem"] @@ [snapshot |-> read]
    IN CASE c.call.op = "saveDailyEntry" ->
              { LET entries == Set(JSONparse(Or(read, EmptyObjectText)),
                                   c.call.date.s,
                                   NewEntry(c.call.date, c.call.water_ml,
                                            c.call.calories, c.call.steps,
                                            t[1], t[2]))
                IN next @@ [value |-> JSONstringify(entries),
                            out |-> Returned(Obj(<<
                                <<"changes", Num(1)>>,
                                <<"lastInsertRowid",
                                  Get(Get(entries, c.call.date.s), "id")>> >>))]
                : t \in {u \in clock \X clock : u[2] >= u[1]} }
         [] c.call.op = "saveMedicine" ->
              { next @@ [value |-> JSONstringify(
                             Set(JSONparse(Or(read, EmptyObjectText)),
                                 ToKey(Get(c.medicineWithId, "id")),
                                 c.medicineWithId)),
                         out |-> Returned(Get(c.medicineWithId, "id"))] }
         [] c.call.op = "updateMedicine" ->
              LET medicines == JSONparse(Or(read, EmptyObjectText))
                  stored == Get(medicines, ToKey(c.call.id))
              IN IF ~Truthy(stored)
                 THEN { Finished(c.call, Threw(<<"Medicine not found">>), c.origin) }
                 ELSE { next @@ [value |-> JSONstringify(
                                    Set(medicines, ToKey(c.call.id),
                                        Set(Spread(stored, c.call.medicine),
                                            "updated_at", Iso(tUpdated)))),
                                 out |-> Returned(undefined)]
                        : tUpdated \in clock }
         [] c.call.op = "deleteMedicine" ->
              { next @@ [value |-> JSONstringify(
                             Delete(JSONparse(Or(read, EmptyObjectText)),
                                    ToKey(c.call.id))),
                         out |-> Returned(undefined)] }
         [] c.call.op = "recordDoseTaken" /\ c.key = MEDICINES ->
              LET medicines == JSONparse(Or(read, EmptyObjectText))
                  medicine == Get(medicines, ToKey(c.call.medicineId))
              IN IF Truthy(medicine)
                 THEN { next @@ [value |-> JSONstringify(
                                    Set(medicines, ToKey(c.call.medicineId),
                                        Set(medicine, "doses_taken",
                                            NextDosesTaken(medicine))))] }
                 ELSE { [c EXCEPT !.key = MEDICINE_DOSE_HISTORY] }
         [] c.call.op = "recordDoseTaken" /\ c.key = MEDICINE_DOSE_HISTORY ->
              { next @@ [value |-> JSONstringify(Arr(Append(
                             JSONparse(Or(read, EmptyArrayText)).items,
                             DoseEntry(c.call.medicineId, c.call.doseTime,
                                       c.now, tId)))),
                         out |-> Returned(undefined)]
                : tId \in {t \in clock : t >= c.now} }

\* The read a call awaited returns and the call goes on to its next await.
\* The clock is read after the read, where the code reads it there.
ResumeAfterGetItem(web, p, clock) ==
    /\ calls[p].pc = "getItem"
    /\ MayRun(web, p)
    /\ \E next \in AfterGetItem(calls[p], getItem(storage, calls[p].key), clock) :
           calls' = [calls EXCEPT ![p] = next]
    /\ UNCHANGED <<storage, last, medium, context>>

\* What a call goes on with once the write it awaited has returned:
\* recordDoseTaken reads the history after it has written the medicines,
\* every other write is the last step of its call.
AfterSetItem(c) ==
    IF c.call.op = "recordDoseTaken" /\ c.key = MEDICINES
    THEN [pc |-> "getItem", call |-> c.call, key |-> MEDICINE_DOSE_HISTORY,
          now |-> c.now, origin |-> c.origin]
    ELSE Finished(c.call, c.out, c.origin)

\* A write that is dropped when the key no longer holds what the call read.
ResumeAfterSetItem_CompareAndSet(web, p) ==
    /\ calls[p].pc = "setItem"
    /\ MayRun(web, p)
    /\ storage' = IF getItem(storage, calls[p].key) = calls[p].snapshot
                  THEN setItem(storage, calls[p].key, calls[p].value)
                  ELSE storage
    /\ calls' = [calls EXCEPT ![p] = AfterSetItem(calls[p])]
    /\ UNCHANGED <<last, medium, context>>

\* A write of the history that, when it fails, puts back the medicines the
\* call began with.
ResumeAfterSetItem_RollingBack(web, p) ==
    /\ calls[p].pc = "setItem"
    /\ MayRun(web, p)
    /\ storage' = IF /\ calls[p].key = MEDICINE_DOSE_HISTORY
                     /\ calls[p].key \notin medium.writable
                  THEN [storage EXCEPT ![MEDICINES] = calls[p].origin[MEDICINES]]
                  ELSE setItem(storage, calls[p].key, calls[p].value)
    /\ calls' = [calls EXCEPT ![p] = AfterSetItem(calls[p])]
    /\ UNCHANGED <<last, medium, context>>

\* The write a call awaited takes place and the call goes on.
ResumeAfterSetItem(web, p) ==
    /\ calls[p].pc = "setItem"
    /\ MayRun(web, p)
    /\ storage' = setItem(storage, calls[p].key, calls[p].value)
    /\ calls' = [calls EXCEPT ![p] = AfterSetItem(calls[p])]
    /\ UNCHANGED <<last, medium, context>>

\* The process ends while a call is waiting for a storage access: the call
\* takes no further step.
Stop(p) ==
    /\ calls[p].pc \in {"getItem", "setItem"}
    /\ calls' = [calls EXCEPT ![p] = [calls[p] EXCEPT !.pc = "stopped"]]
    /\ UNCHANGED <<storage, last, medium, context>>

\* The caller has taken the outcome of its call, or the application has
\* started again after a stop: the caller may call again.
Settle(p) ==
    /\ calls[p].pc \in {"done", "stopped"}
    /\ calls' = [calls EXCEPT ![p] = Idle]
    /\ UNCHANGED <<storage, last, medium, context>>

---------------------------------------------------------------------------
(* Specification of two callers on the asynchronous backend: a medicine is
   stored by a call that has returned, then each caller issues one write
   and the two calls go on in any order. *)

StoreAspirinStep ==
    /\ \A p \in Procs : calls[p] = Idle
    /\ saveMedicineAt({1}, MedAspirin)
    /\ UNCHANGED <<medium, calls, context>>

RaceSaveDailyEntryStep ==
    \E p \in Procs, date \in {Str("2025-01-01"), Str("2025-01-02")} :
        BeginSaveDailyEntry(FALSE, p, date, Num(1000), Num(500), Num(2000))

RaceSaveMedicineStep ==
    \E p \in Procs, t \in DoseSaveClock :
        BeginSaveMedicine(FALSE, p, MedForm, {t})

RaceRecordDoseTakenStep ==
    \E p \in Procs : BeginRecordDoseTaken(FALSE, p, Num(1), Num(8), {1})

RaceGetItemStep ==
    \E p \in Procs : ResumeAfterGetItem(FALSE, p, {1})

RaceSetItemStep ==
    \E p \in Procs : ResumeAfterSetItem(FALSE, p)

NextRace ==
    \/ StoreAspirinStep
    \/ RaceSaveDailyEntryStep
    \/ RaceSaveMedicineStep
    \/ RaceRecordDoseTakenStep
    \/ RaceGetItemStep
    \/ RaceSetItemStep

SpecRace == Init /\ [][NextRace]_vars

---------------------------------------------------------------------------
(* Claims about concurrent calls on the asynchronous backend *)

\* The document stored under a key, parsed; `empty` when nothing is stored.
StoredUnder(st, key, empty) ==
    IF st[key].t = "null" THEN empty ELSE st[key].json

\* The caller whose awaited write takes place in this step.
Writes(p) == calls[p].pc = "setItem" /\ calls'[p] # calls[p]

\* C22: on the asynchronous backend a write of saveDailyEntry, saveMedicine
\* or recordDoseTaken replaces the whole document by what its call read
\* with the call's own change applied: the map after the write of
\* saveDailyEntry (saveMedicine) holds exactly the keys the call read and
\* its own date (id), and the history after the write of recordDoseTaken
\* is the history the call read with one entry pushed. A change another
\* call wrote between the read and the write is therefore not in it.
C22_LastWriterWins ==
    [][\A p \in Procs : Writes(p) =>
        LET c == calls[p]
            read == c.snapshot
        IN /\ c.call.op = "saveDailyEntry" =>
                 Keys(StoredUnder(storage', DAILY_ENTRIES, Obj(<<>>)))
                     = Keys(JSONparse(Or(read, EmptyObjectText))) \cup {c.call.date.s}
           /\ c.call.op = "saveMedicine" =>
                 Keys(StoredUnder(storage', MEDICINES, Obj(<<>>)))
                     = Keys(JSONparse(Or(read, EmptyObjectText)))
                           \cup {ToKey(Get(c.medicineWithId, "id"))}
           /\ c.call.op = "recordDoseTaken" /\ c.key = MEDICINE_DOSE_HISTORY =>
                 LET before == JSONparse(Or(read, EmptyArrayText)).items
                     after == StoredUnder(storage', MEDICINE_DOSE_HISTORY,
                                          Arr(<<>>)).items
                 IN /\ Len(after) = Len(before) + 1
                    /\ SubSeq(after, 1, Len(before)) = before
      ]_vars

\* Two saveDailyEntry calls for different dates have both returned without
\* error, and the stored map holds the entry of only one of them.
C22_Witness ==
    /\ \A p \in Procs : /\ calls[p].pc = "done"
                        /\ calls[p].call.op = "saveDailyEntry"
                        /\ ~calls[p].out.threw
    /\ calls["first"].call.date # calls["second"].call.date
    /\ Cardinality(Keys(StoredUnder(storage, DAILY_ENTRIES, Obj(<<>>)))) = 1

\* The same for two saveMedicine calls that returned different ids.
C22_MedicineLost ==
    /\ \A p \in Procs : /\ calls[p].pc = "done"
                        /\ calls[p].call.op = "saveMedicine"
                        /\ ~calls[p].out.threw
    /\ calls["first"].out.value # calls["second"].out.value
    /\ storage[MEDICINES] = null
           \/ Cardinality(Keys(StoredUnder(storage, MEDICINES, Obj(<<>>)))) = 1

\* The same for two recordDoseTaken calls: one history entry and a counter
\* of 1 after two doses.
C22_DoseLost ==
    /\ \A p \in Procs : /\ calls[p].pc = "done"
                        /\ calls[p].call.op = "recordDoseTaken"
                        /\ ~calls[p].out.threw
    /\ Len(StoredUnder(storage, MEDICINE_DOSE_HISTORY, Arr(<<>>)).items) = 1
    /\ storage[MEDICINES] # null
    /\ Get(Get(storage[MEDICINES].json, 1), "doses_taken") = Num(1)

---------------------------------------------------------------------------
(* Specification of recordDoseTaken on the asynchronous backend with writes
   that fail and a process that stops: one caller records doses for a
   stored medicine, one call after the other. *)

\* The backend writes every key, or every key but one of the two that
\* recordDoseTaken writes.
DoseMediumStates ==
    {WorkingMedium,
     [readable |-> STORAGE_KEYS, writable |-> STORAGE_KEYS \ {MEDICINES}],
     [readable |-> STORAGE_KEYS, writable |-> STORAGE_KEYS \ {MEDICINE_DOSE_HISTORY}]}

DoseMediumChanges ==
    /\ \E m \in DoseMediumStates : medium' = m
    /\ UNCHANGED <<storage, last, calls, context>>

FaultStoreAspirinStep ==
    /\ storage[MEDICINES] = null
    /\ StoreAspirinStep

\* A dose is recorded while the history and the counter are below the bound.
FaultRecordDoseTakenStep ==
    /\ Len(StoredHistory(storage)) < MaxHistory
    /\ \A medicine \in Elements(ObjectValues(StoredMedicines(storage))) :
           Or(Get(medicine, "doses_taken"), Num(0)).n < MaxHistory
    /\ BeginRecordDoseTaken(FALSE, "first", Num(1), Num(8), {1})

FaultGetItemStep == ResumeAfterGetItem(FALSE, "first", {1})

FaultSetItemStep == ResumeAfterSetItem(FALSE, "first")

FaultStopStep == Stop("first")

FaultSettleStep == Settle("first")

NextDoseFault ==
    \/ DoseMediumChanges
    \/ FaultStoreAspirinStep
    \/ FaultRecordDoseTakenStep
    \/ FaultGetItemStep
    \/ FaultSetItemStep
    \/ FaultStopStep
    \/ FaultSettleStep

SpecDoseFault == Init /\ [][NextDoseFault]_vars

---------------------------------------------------------------------------
(* Claim about the two writes of recordDoseTaken *)

\* doses_taken of the stored medicine 1, 0 when it is not stored.
DosesTakenIn(st) ==
    LET medicine == Get(StoredMedicines(st), 1)
    IN IF medicine = undefined THEN 0 ELSE Or(Get(medicine, "doses_taken"), Num(0)).n

\* C23: recordDoseTaken is not atomic. Its two writes are independent: the
\* write of the medicines changes nothing but the medicines, the write of
\* the history nothing but the history, each takes effect exactly when the
\* backend accepts it, and neither puts back what the other wrote. So when
\* the call returns after exactly one of the two has failed, or stops
\* between them, the counter has gone up without a history entry or the
\* history has grown without the counter, against the stores the call
\* began with; and the call returns without error.
C23_NotAtomic ==
    [][LET c == calls["first"]
           after == calls'["first"]
           bumped == DosesTakenIn(storage') = DosesTakenIn(c.origin) + 1
           appended == Len(StoredHistory(storage'))
                           = Len(StoredHistory(c.origin)) + 1
       IN /\ (c.pc = "setItem" /\ after # c /\ after.pc # "stopped") =>
                 /\ \A k \in STORAGE_KEYS \ {c.key} : storage'[k] = storage[k]
                 /\ storage'[c.key] =
                        IF c.key \in medium.writable THEN c.value ELSE storage[c.key]
                 /\ after.pc = "done" =>
                        /\ ~after.out.threw
                        /\ bumped = (storage[MEDICINES] # c.origin[MEDICINES])
                        /\ appended = (MEDICINE_DOSE_HISTORY \in medium.writable)
                        /\ bumped # appended =>
                               DosesTakenIn(storage') - DosesTakenIn(c.origin)
                                   # Len(StoredHistory(storage'))
                                         - Len(StoredHistory(c.origin))
          /\ (c.pc \in {"getItem", "setItem"} /\ after.pc = "stopped") =>
                 /\ storage' = storage
                 /\ (c.key = MEDICINE_DOSE_HISTORY
                        /\ storage[MEDICINES] # c.origin[MEDICINES]) =>
                        /\ DosesTakenIn(storage') = DosesTakenIn(c.origin) + 1
                        /\ StoredHistory(storage') = StoredHistory(c.origin)
      ]_vars

\* A call has returned with the counter raised and no history entry added.
C23_Witness ==
    LET c == calls["first"]
    IN /\ c.pc = "done"
       /\ ~c.out.threw
       /\ DosesTakenIn(storage) = DosesTakenIn(c.origin) + 1
       /\ StoredHistory(storage) = StoredHistory(c.origin)

\* A call has returned with a history entry added and the counter as it was.
C23_HistoryOnly ==
    LET c == calls["first"]
    IN /\ c.pc = "done"
       /\ ~c.out.threw
       /\ Get(StoredMedicines(storage), 1) # undefined
       /\ DosesTakenIn(storage) = DosesTakenIn(c.origin)
       /\ Len(StoredHistory(storage)) = Len(StoredHistory(c.origin)) + 1

\* A call has stopped between its two writes: the counter is raised and the
\* history as it was, with every write accepted.
C23_Stopped ==
    LET c == calls["first"]
    IN /\ c.pc = "stopped"
       /\ medium = WorkingMedium
       /\ DosesTakenIn(storage) = DosesTakenIn(c.origin) + 1
       /\ StoredHistory(storage) = StoredHistory(c.origin)

---------------------------------------------------------------------------
(* Specification of the medicines map under every operation that writes
   it *)

\* A medicine whose two dose times are the same hour.
MedTwiceAtEight == Set(MedAspirin, "times", Arr(<<Num(8), Num(8)>>))

\* Data for an update that carries an id of its own and no doses_taken.
MedRenumbered == Set(Set(MedAspirin, "name", Str("Ibuprofen")), "id", Num(2))

RecordsSaveStep ==
    /\ \E t \in DoseSaveClock, medicine \in {MedAspirin, MedTwiceAtEight} :
           saveMedicineAt({t}, medicine)
    /\ UNCHANGED <<medium, calls, context>>

RecordsUpdateStep ==
    /\ \E id \in DoseIdArgs, medicine \in {MedForm, MedRenumbered} :
           updateMedicineAt({2}, id, medicine)
    /\ UNCHANGED <<medium, calls, context>>

RecordsDeleteStep ==
    /\ \E id \in DoseIdArgs : deleteMedicine(id)
    /\ UNCHANGED <<medium, calls, context>>

RecordsDoseStep ==
    /\ Len(ReadHistory(storage).items) < MaxHistory
    /\ recordDoseTakenAt(DoseClock, Num(1), Num(8))
    /\ UNCHANGED <<medium, calls, context>>

NextRecords ==
    \/ RecordsSaveStep
    \/ RecordsUpdateStep
    \/ RecordsDeleteStep
    \/ RecordsDoseStep
    \/ GetAllMedicinesStep

SpecRecords == Init /\ [][NextRecords]_vars

---------------------------------------------------------------------------
(* Claims about the medicines map *)

\* C24: updateMedicine(id, data) on a stored medicine is a merge: after it
\* every field present in data reads with data's value, updated_at is the
\* instant of the call (2 in these runs), every other field of the stored record keeps its
\* value, and every other medicine in the map is unchanged.
C24_UpdateMerges ==
    [][ ( /\ ReturnedFrom(last', "updateMedicine")
          /\ HasOwn(StoredMedicines(storage), ToKey(last'.call.id)) )
        => LET id == ToKey(last'.call.id)
               data == last'.call.medicine
               before == Get(StoredMedicines(storage), id)
               after == Get(StoredMedicines(storage'), id)
           IN /\ \A k \in Keys(data) \ {"updated_at"} : Get(after, k) = Get(data, k)
              /\ Get(after, "updated_at") = Iso(2)
              /\ \A k \in Keys(before) \ (Keys(data) \cup {"updated_at"}) :
                     Get(after, k) = Get(before, k)
              /\ Keys(after) \subseteq Keys(before) \cup Keys(data) \cup {"updated_at"}
              /\ Keys(StoredMedicines(storage')) = Keys(StoredMedicines(storage))
              /\ \A other \in Keys(StoredMedicines(storage)) \ {id} :
                     Get(StoredMedicines(storage'), other)
                         = Get(StoredMedicines(storage), other)
      ]_vars

\* A medicine with a dose taken has been updated with data that carry no
\* doses_taken, while another medicine is stored: the name is the data's
\* and the counter is as it was.
C24_Witness ==
    /\ ReturnedFrom(last, "updateMedicine")
    /\ last.call.medicine = MedRenumbered
    /\ Cardinality(Keys(StoredMedicines(storage))) = 2
    /\ LET after == Get(StoredMedicines(storage), ToKey(last.call.id))
       IN /\ Get(after, "name") = Str("Ibuprofen")
          /\ Get(after, "doses_taken") = Num(1)
          /\ Get(after, "created_at") # undefined
          /\ Get(after, "updated_at") # undefined

\* C26: every stored medicine's times is a non-empty list of hours in 0..23
\* that contains no duplicate hour.
C26_DistinctHours ==
    \A k \in Keys(StoredMedicines(storage)) :
        LET times == Get(Get(StoredMedicines(storage), k), "times")
        IN /\ times.t = "array"
           /\ Len(times.items) > 0
           /\ \A i \in 1..Len(times.items) :
                  /\ times.items[i].t = "number"
                  /\ times.items[i].n \in 0..23
           /\ \A i, j \in 1..Len(times.items) :
                  i # j => times.items[i] # times.items[j]

\* C30: every record stored under key k in the medicines map has id = k,
\* and so has every record getAllMedicines returns.
C30_KeyIsId ==
    /\ \A k \in Keys(StoredMedicines(storage)) :
           Get(Get(StoredMedicines(storage), k), "id") = Num(k)
    /\ ReturnedFrom(last, "getAllMedicines") =>
           \A i \in 1..Len(last.out.value.items) :
               HasOwn(StoredMedicines(storage),
                      ToKey(Get(last.out.value.items[i], "id")))

---------------------------------------------------------------------------
(* Specification of two callers on the synchronous backend: a medicine may
   be stored first, then each caller issues one write of the record store.
   The web branches hold no await, so a call that has begun is the only
   one that runs until it has returned. *)

WebSaveDailyEntryStep ==
    \E p \in Procs, date \in {Str("2025-01-01"), Str("2025-01-02")} :
        BeginSaveDailyEntry(TRUE, p, date, Num(1000), Num(500), Num(2000))

WebSaveUserProfileStep ==
    \E p \in Procs, profile \in {ProfileNameOnly, Obj(<< <<"weight_kg", Num(10)>> >>)} :
        BeginSaveUserProfile(TRUE, p, profile, {1})

WebSaveMedicineStep ==
    \E p \in Procs, t \in DoseSaveClock :
        BeginSaveMedicine(TRUE, p, MedForm, {t})

WebUpdateMedicineStep ==
    \E p \in Procs : BeginUpdateMedicine(TRUE, p, Num(1), MedForm)

WebDeleteMedicineStep ==
    \E p \in Procs : BeginDeleteMedicine(TRUE, p, Num(1))

WebRecordDoseTakenStep ==
    \E p \in Procs : BeginRecordDoseTaken(TRUE, p, Num(1), Num(8), {1})

WebGetItemStep ==
    \E p \in Procs : ResumeAfterGetItem(TRUE, p, {1})

WebSetItemStep ==
    \E p \in Procs : ResumeAfterSetItem(TRUE, p)

NextWeb ==
    \/ StoreAspirinStep
    \/ WebSaveDailyEntryStep
    \/ WebSaveUserProfileStep
    \/ WebSaveMedicineStep
    \/ WebUpdateMedicineStep
    \/ WebDeleteMedicineStep
    \/ WebRecordDoseTakenStep
    \/ WebGetItemStep
    \/ WebSetItemStep

SpecWeb == Init /\ [][NextWeb]_vars

---------------------------------------------------------------------------
(* Claims about concurrent calls on the synchronous backend *)

\* A call is between its first and its last step.
InFlight(p) == calls[p].pc \in {"getItem", "setItem"}

\* A call of op has returned to the caller without error.
DoneReturned(p, op) ==
    /\ calls[p].pc = "done"
    /\ calls[p].call.op = op
    /\ ~calls[p].out.threw

\* C29: on the synchronous backend a write of the record store reads,
\* changes and writes without another call running in between: two calls
\* are never in flight together; while a call is in flight the store is as
\* it was when the call began, but for what the call wrote itself (the
\* medicines, once recordDoseTaken has gone on to the history); and what a
\* call is about to overwrite is what it read. So the calls take effect one
\* after another and no update is lost: every entry saved is stored, every
\* medicine saved is stored unless a deleteMedicine of its id has run, and
\* the history has one entry for each recordDoseTaken that returned.
C29_WebWritesSerial ==
    /\ \A p, q \in Procs : p # q => ~(InFlight(p) /\ InFlight(q))
    /\ \A p \in Procs : InFlight(p) =>
           \A k \in STORAGE_KEYS :
               \/ storage[k] = calls[p].origin[k]
               \/ /\ calls[p].call.op = "recordDoseTaken"
                  /\ calls[p].key = MEDICINE_DOSE_HISTORY
                  /\ k = MEDICINES
    /\ \A p \in Procs :
           calls[p].pc = "setItem" /\ calls[p].call.op # "saveUserProfile" =>
               calls[p].snapshot = getItem(storage, calls[p].key)
    /\ \A p \in Procs :
           /\ DoneReturned(p, "saveDailyEntry") =>
                  HasOwn(StoredEntries(storage), calls[p].call.date.s)
           /\ DoneReturned(p, "saveMedicine") =>
                  \/ HasOwn(StoredMedicines(storage), ToKey(calls[p].out.value))
                  \/ \E q \in Procs \ {p} :
                         /\ DoneReturned(q, "deleteMedicine")
                         /\ calls[q].call.id = calls[p].out.value
    /\ Len(StoredHistory(storage))
           = Cardinality({p \in Procs : DoneReturned(p, "recordDoseTaken")})

\* Two recordDoseTaken calls for the stored medicine have both returned:
\* the history has two entries and the counter is 2.
C29_Witness ==
    /\ \A p \in Procs : DoneReturned(p, "recordDoseTaken")
    /\ Len(StoredHistory(storage)) = 2
    /\ HasOwn(StoredMedicines(storage), 1)
    /\ Get(Get(StoredMedicines(storage), 1), "doses_taken") = Num(2)

\* Two saveDailyEntry calls for different dates have both returned and
\* both entries are stored.
C29_BothEntries ==
    /\ \A p \in Procs : DoneReturned(p, "saveDailyEntry")
    /\ calls["first"].call.date # calls["second"].call.date
    /\ Cardinality(Keys(StoredEntries(storage))) = 2

---------------------------------------------------------------------------
(* The profile context: the provider's state and its operations *)

\* The context module's own defaultProfile; created_at and updated_at are
\* read from the clock when the module is loaded, before anything else runs.
defaultProfileOfContext ==
    Obj(<< <<"id", Num(1)>>,
           <<"birthdate", null>>,
           <<"weight_kg", null>>,
           <<"height_cm", null>>,
           <<"daily_water_goal_ml", Num(2000)>>,
           <<"daily_calorie_goal", Num(2000)>>,
           <<"daily_step_goal", Num(10000)>>,
           <<"name", Str("")>>,
           <<"activity_level", Str("moderate")>>,
           <<"created_at", Iso(1)>>,
           <<"updated_at", Iso(1)>> >>)

\* The provider after a call: the profile it holds, the two flags, and the
\* call that was made of it.
Provider(profile, loading, initialized, call) ==
    [mounted |-> TRUE, profile |-> profile, loading |-> loading,
     initialized |-> initialized, call |-> call]

\* The provider is rendered and its effect runs loadUserProfile(): the
\* stored profile when getUserProfile() returns one, otherwise the default
\* profile, which is saved first.
loadUserProfile ==
    LET savedProfile == getUserProfileResult(storage)
        call == [op |-> "loadUserProfile"]
    IN /\ ~context.mounted
       /\ IF Truthy(savedProfile)
          THEN /\ getUserProfile
               /\ context' = Provider(savedProfile, FALSE, TRUE, call)
          ELSE /\ saveUserProfile(defaultProfileOfContext)
               /\ context' = Provider(defaultProfileOfContext, FALSE, TRUE, call)

\* setProfile(updatedProfile); await saveUserProfile(updatedProfile): the
\* provider holds the new profile before the store is asked, and the catch
\* block rethrows without putting the old one back.
StoreThenSave(call, updatedProfile) ==
    /\ context.mounted
    /\ saveUserProfile(updatedProfile)
    /\ context' = [context EXCEPT !.profile = updatedProfile, !.call = call]

\* updateProfile(updates): { ...profile, ...updates, updated_at: now }
updateProfile(updates) ==
    \E tUpdated \in Clock :
        StoreThenSave([op |-> "updateProfile", updates |-> updates],
                      Set(Spread(context.profile, updates),
                          "updated_at", Iso(tUpdated)))

\* updateGoals(goals): updateProfile with the three goals.
updateGoals(goals) ==
    \E tUpdated \in Clock :
        StoreThenSave([op |-> "updateGoals", goals |-> goals],
                      Set(Spread(context.profile,
                                 Obj(<< <<"daily_water_goal_ml", Get(goals, "water")>>,
                                        <<"daily_calorie_goal", Get(goals, "calories")>>,
                                        <<"daily_step_goal", Get(goals, "steps")>> >>)),
                          "updated_at", Iso(tUpdated)))

\* resetToDefaults(): { ...defaultProfile, updated_at: now }
resetToDefaults ==
    \E tUpdated \in Clock :
        StoreThenSave([op |-> "resetToDefaults"],
                      Set(defaultProfileOfContext, "updated_at", Iso(tUpdated)))

---------------------------------------------------------------------------
(* Specification of the profile context over a store that can refuse *)

\* Updates a settings screen sends: a weight in range, a weight below the
\* range, a name.
ContextUpdateArgs ==
    { Obj(<< <<"weight_kg", Num(70)>> >>),
      Obj(<< <<"weight_kg", Num(10)>> >>),
      Obj(<< <<"name", Str("Ann")>> >>) }

\* Goals in range, and goals with a water goal below the range.
ContextGoalArgs ==
    { Obj(<< <<"water", Num(2500)>>, <<"calories", Num(2200)>>, <<"steps", Num(8000)>> >>),
      Obj(<< <<"water", Num(100)>>, <<"calories", Num(2200)>>, <<"steps", Num(8000)>> >>) }

\* The backend works or fails every write.
ContextMediumChanges ==
    /\ \E m \in {WorkingMedium, ReadOnlyMedium} : medium' = m
    /\ UNCHANGED <<storage, last, calls, context>>

LoadUserProfileStep ==
    /\ loadUserProfile
    /\ UNCHANGED <<medium, calls>>

UpdateProfileStep ==
    /\ \E updates \in ContextUpdateArgs : updateProfile(updates)
    /\ UNCHANGED <<medium, calls>>

UpdateGoalsStep ==
    /\ \E goals \in ContextGoalArgs : updateGoals(goals)
    /\ UNCHANGED <<medium, calls>>

ResetToDefaultsStep ==
    /\ resetToDefaults
    /\ UNCHANGED <<medium, calls>>

NextContext ==
    \/ ContextMediumChanges
    \/ LoadUserProfileStep
    \/ UpdateProfileStep
    \/ UpdateGoalsStep
    \/ ResetToDefaultsStep

SpecContext == Init /\ [][NextContext]_vars

---------------------------------------------------------------------------
(* Claims about the profile context *)

\* The operations of the context that write the profile.
ContextWrites == {"updateProfile", "updateGoals", "resetToDefaults"}

\* C28: when the store rejects the profile written by updateProfile,
\* updateGoals or resetToDefaults (saveUserProfile throws) or fails to write
\* it (the backend refuses the write), the profile the context holds after
\* the call is the profile it held before the call.
C28_ProfileKeptOnFailure ==
    [][ ( /\ context.mounted
          /\ context'.call.op \in ContextWrites
          /\ \/ ThrewFrom(last', "saveUserProfile")
             \/ USER_PROFILE \notin medium.writable )
        => context'.profile = context.profile
      ]_vars

\* What the code does instead: after every such call the context holds the
\* profile the call built, whether saveUserProfile returned or threw, and
\* the stored profile changes only when it returned and the backend wrote.
C28_ProfileSetBeforeSave ==
    [][ ( /\ context.mounted
          /\ context'.call.op \in ContextWrites
          /\ context' # context )
        => /\ last'.call.op = "saveUserProfile"
           /\ context'.profile = last'.call.profile
           /\ (ThrewFrom(last', "saveUserProfile") \/ USER_PROFILE \notin medium.writable)
                  => storage' = storage
      ]_vars

\* updateProfile({weight_kg: 10}) has thrown and the context holds the
\* weight the store rejected, while the stored profile has none.
C28_RejectedHeld ==
    /\ context.mounted
    /\ context.call.op = "updateProfile"
    /\ ThrewFrom(last, "saveUserProfile")
    /\ Get(context.profile, "weight_kg") = Num(10)
    /\ Get(StoredProfile(storage), "weight_kg") # Num(10)

---------------------------------------------------------------------------
(* Claims about an entry's created_at *)

\* C25: an entry's created_at is immutable: once an entry is stored for a
\* date, every later successful saveDailyEntry to that date leaves its
\* created_at as it was.
C25_CreatedAtImmutable ==
    [][ ( /\ ReturnedFrom(last', "saveDailyEntry")
          /\ HasOwn(ReadEntries(storage), last'.call.date.s) )
        => Get(Get(ReadEntries(storage'), last'.call.date.s), "created_at")
               = Get(Get(ReadEntries(storage), last'.call.date.s), "created_at")
      ]_vars

\* What the code does instead: every successful saveDailyEntry replaces the
\* whole entry of its date, and the created_at it stores is read from the
\* clock during that save, not earlier than the id the same save returns;
\* whatever created_at the date had before plays no part. A save that throws
\* leaves every stored created_at as it was.
C25_CreatedAtOfLastSave ==
    [][ /\ ReturnedFrom(last', "saveDailyEntry") =>
              LET after == Get(ReadEntries(storage'), last'.call.date.s)
              IN /\ Get(after, "id") = Get(last'.out.value, "lastInsertRowid")
                 /\ \E t \in Clock :
                        /\ Get(after, "created_at") = Iso(t)
                        /\ t >= Get(after, "id").n
                 /\ Keys(after) = {"id", "date", "water_ml", "calories",
                                   "steps", "created_at"}
        /\ ThrewFrom(last', "saveDailyEntry") => storage' = storage
      ]_vars

\* A date first saved at instant 1 has been saved again at instant 2 and
\* its created_at is now the second instant.
C25_Witness ==
    /\ ReturnedFrom(last, "saveDailyEntry")
    /\ last.call.date = Str("2025-01-01")
    /\ Get(last.out.value, "lastInsertRowid") = Num(2)
    /\ Get(Get(ReadEntries(storage), "2025-01-01"), "created_at") = Iso(2)
    /\ HasOwn(ReadEntries(storage), "2025-01-02")

===========================================================================
